---------------------------- MODULE Spec2Model ----------------------------
(***************************************************************************)
(* Order fulfillment center simulation (ofc_simulation_10_18_inbound_      *)
(* optimized.py) as a state machine.                                       *)
(*                                                                         *)
(* The program is a SimPy discrete-event simulation.  The model keeps the  *)
(* SimPy event queue explicitly: `queue' is the list of scheduled events   *)
(* ordered by (time, priority, insertion order).  One action = one event   *)
(* popped from the queue and the code the resumed process runs up to its   *)
(* next yield.  Starting a sub-process (env.process) schedules an URGENT   *)
(* Initialize event, ending one schedules a NORMAL event for the parent,   *)
(* exactly as SimPy does, so same-instant interleavings are the program's. *)
(*                                                                         *)
(* Products are numbered 1..4 = tshirt, hoodie, spants, sneaks; under the  *)
(* designated policy product p lives in bin p.                             *)
(*                                                                         *)
(* Not modelled: logging/printing processes and holding_cost_monitor,      *)
(* which only accumulate reports and a float cost and touch no other state.*)
(***************************************************************************)
EXTENDS Integers, Sequences, FiniteSets, TLC

\* ------------------------------------------------------------------ sizes
\* Durations of the simulation, scaled down from the program's values so
\* that one-second idle polling stays explorable (program: 72*60*60,
\* 8*60*60, 86401*7*3, 9*60*60, 24*60*60, 50000 lbs).
ORDER_EXPIRATION == 330
shift_length == 100
sim_until == 405
\* the horizon of the run that follows one random stow trip to its end
sim_until_stow == 650
initial_wait == 5
wait == 400
\* capacity of inbound parking in half-pounds (unit weights are doubled to
\* stay in the integers)
inbound_parking_capacity2 == 40
\* cap on bin-to-bin moves of one random-policy pickup
MaxMoves == 4
\* largest number of packing stations installed
MaxStations == 2

\* literals of the program
TravelTime == 120
UnitTime == 10
HopTime == 60
HandoffTime == 30
PackBaseTime == 30
IdleTime == 1
StowTripWeight2 == 24
NumBins == 4

URGENT == 0
NORMAL == 1

Products == 1..4
Bins == 1..NumBins

unit_gross_profit == <<4, 10, 10, 20>>
unit_lost_sales_penalty == <<1, 6, 6, 10>>
\* unit weights .5, 1, 1, 1.5 doubled
unit_weight2 == <<1, 2, 2, 3>>

Zero4 == <<0, 0, 0, 0>>

Sum4(v) == v[1] + v[2] + v[3] + v[4]
Min(a, b) == IF a < b THEN a ELSE b
Max(a, b) == IF a > b THEN a ELSE b

\* ------------------------------------------------------------------ state
VARIABLES
    now,            \* env.now
    queue,          \* scheduled events, ordered by (time, prio, insertion)
    running,        \* worker inside a loop that has not yielded yet (0: none)
    storage_type,   \* "designated" | "random"
    bins,           \* bins[b][p]: level of product p in storage bin b
    binq,           \* binq[b][p]: blocked get requests of that container
    parking,        \* inbound_parking levels
    tracker,        \* inventory_tracker levels
    trackerq,       \* pending (never yielded) get requests on the tracker
    orders,         \* the CustomerOrder objects
    orders_source,  \* ids of the orders not yet popped by order_reciever
    recv,           \* order_reciever: pc and the order it waits for
    mon,            \* order_age_monitor of each order: its pc
    order_store,    \* warehouse.order_store.items
    stations,       \* packing stations: slot users and queue items
    workers,        \* worker_shift processes with their sub-process locals
    mgr,            \* shift_manager: shift_idx and current_shift
    roster,         \* shift_schedule, its rows in calendar order
    dock,           \* inbound_recieving_dock: pc and locals
    schedule,       \* inbound delivery schedule, indexed by delivery number
    kpi,            \* the warehouse counters and totals (expenses counted in
                    \* fees and in seconds of wage, not in dollars)
    picked,         \* history: units actually got from bins for each order
    delivered,      \* history: initial stock plus units accepted by the dock
    pool            \* history: units put into / got from every container

vars == <<now, queue, running, storage_type, bins, binq, parking, tracker,
          trackerq, orders, orders_source, recv, mon, order_store, stations,
          workers, mgr, roster, dock, schedule, kpi, picked, delivered, pool>>

\* ------------------------------------------------------- SimPy primitives
\* an event of the queue: kind names the process to resume ("recv", "mon",
\* "mgr", "dock", "worker") or a bin put whose callback serves getters
Ev(t, prio, kind, id, b, p) ==
    [time |-> t, prio |-> prio, kind |-> kind, id |-> id, bin |-> b, prod |-> p]

\* an event heap ordered by time and scheduling order only
EvBeforeMutant(a, e) == a.time <= e.time

EvBefore(a, e) == a.time < e.time \/ (a.time = e.time /\ a.prio <= e.prio)

\* Environment.schedule: heap order (time, priority, event id)
Schedule(q, e) ==
    LET k == Cardinality({i \in 1..Len(q) : EvBefore(q[i], e)})
    IN  SubSeq(q, 1, k) \o <<e>> \o SubSeq(q, k + 1, Len(q))

RECURSIVE ScheduleAll(_, _)
ScheduleAll(q, es) ==
    IF es = <<>> THEN q ELSE ScheduleAll(Schedule(q, Head(es)), Tail(es))

\* the event being processed, and env.now while it is processed
Ev0 == Head(queue)
T == IF running = 0 THEN Ev0.time ELSE now

\* the delivery schedule of the run with the longer horizon
StowSchedule == <<<<10, 0, 0, 0>>>>
Until == IF schedule = StowSchedule THEN sim_until_stow ELSE sim_until

\* Environment.run(until=sim_until) stops before any event at sim_until
Fires(kind, id) ==
    /\ running = 0
    /\ queue # <<>>
    /\ Ev0.time < Until
    /\ Ev0.kind = kind
    /\ Ev0.id = id

Timeout(w, d) == Ev(T + d, NORMAL, "worker", w, 0, 0)
\* a request that succeeded at once, or a finished sub-process: the waiting
\* process is resumed by a NORMAL event at the current time
Resume(w) == Ev(T, NORMAL, "worker", w, 0, 0)
\* env.process(...): the new generator starts at an URGENT event
Initialize(w) == Ev(T, URGENT, "worker", w, 0, 0)
PutEvent(b, p) == Ev(T, NORMAL, "binput", 0, b, p)

\* simpy.Container: BaseResource._trigger_get walks the get queue from its
\* head and stops at the first request that cannot be met (Container._do_get)
RECURSIVE ServeGetsMutant(_, _)
ServeGetsMutant(level, q) ==
    IF q = <<>>
    THEN [level |-> level, served |-> <<>>, rest |-> q]
    ELSE LET r == ServeGetsMutant(level - Head(q).amount, Tail(q))
         IN  [level |-> r.level, served |-> <<Head(q)>> \o r.served,
              rest |-> r.rest]

\* a get queue that serves whoever can be met, passing over a blocked head
RECURSIVE ServeGetsAnyMutant(_, _)
ServeGetsAnyMutant(level, q) ==
    IF q = <<>>
    THEN [level |-> level, served |-> <<>>, rest |-> q]
    ELSE IF Head(q).amount > level
    THEN LET r == ServeGetsAnyMutant(level, Tail(q))
         IN  [level |-> r.level, served |-> r.served,
              rest |-> <<Head(q)>> \o r.rest]
    ELSE LET r == ServeGetsAnyMutant(level - Head(q).amount, Tail(q))
         IN  [level |-> r.level, served |-> <<Head(q)>> \o r.served,
              rest |-> r.rest]

RECURSIVE ServeGets(_, _)
ServeGets(level, q) ==
    IF q = <<>> \/ Head(q).amount > level
    THEN [level |-> level, served |-> <<>>, rest |-> q]
    ELSE LET r == ServeGets(level - Head(q).amount, Tail(q))
         IN  [level |-> r.level, served |-> <<Head(q)>> \o r.served,
              rest |-> r.rest]

Req(w, n) == [proc |-> w, amount |-> n]

RECURSIVE SumAmounts(_)
SumAmounts(q) == IF q = <<>> THEN 0 ELSE Head(q).amount + SumAmounts(Tail(q))

RECURSIVE ResumeAll(_)
ResumeAll(served) ==
    IF served = <<>> THEN <<>>
    ELSE <<Resume(Head(served).proc)>> \o ResumeAll(Tail(served))

\* history variable `picked': units the served requests took for their orders
RECURSIVE AddPicked(_, _, _)
AddPicked(pk, served, p) ==
    IF served = <<>> THEN pk
    ELSE LET o == workers[Head(served).proc].order
         IN  AddPicked([pk EXCEPT ![o][p] = @ + Head(served).amount],
                       Tail(served), p)

PoolIds == ({"bin"} \X Bins \X Products) \cup ({"parking", "tracker"} \X {0} \X Products)

Level(id) ==
    IF id[1] = "bin" THEN bins[id[2]][id[3]]
    ELSE IF id[1] = "parking" THEN parking[id[3]]
    ELSE tracker[id[3]]

\* Container.get(n) by worker w on bins[b][p], appended to the get queue and
\* the queue served: the new levels, queues, events and history
BinGet(w, b, p, n, q0) ==
    LET r == ServeGets(bins[b][p], Append(binq[b][p], Req(w, n)))
    IN  [bins   |-> [bins EXCEPT ![b][p] = r.level],
         binq   |-> [binq EXCEPT ![b][p] = r.rest],
         queue  |-> ScheduleAll(q0, ResumeAll(r.served)),
         picked |-> AddPicked(picked, r.served, p),
         pool   |-> [pool EXCEPT ![<<"bin", b, p>>].got = @ + SumAmounts(r.served)]]

\* FulfillmentCenter.remove_from_inventory_tracker: one get per product with
\* allocated > 0, none of them yielded
TrackerRemove(alloc) ==
    LET r(p) == IF alloc[p] > 0
                THEN ServeGets(tracker[p], Append(trackerq[p], Req(0, alloc[p])))
                ELSE [level |-> tracker[p], served |-> <<>>, rest |-> trackerq[p]]
    IN  [tracker  |-> [p \in Products |-> r(p).level],
         trackerq |-> [p \in Products |-> r(p).rest],
         pool     |-> [id \in PoolIds |->
                         IF id[1] = "tracker"
                         THEN [pool[id] EXCEPT !.got = @ + SumAmounts(r(id[3]).served)]
                         ELSE pool[id]]]

\* CustomerOrder.get_lost_sales_penalty / get_gross_profit
get_lost_sales_penaltyMutant(o) ==
    Sum4([p \in Products |-> o.allocated[p] * unit_lost_sales_penalty[p]])
get_lost_sales_penalty(o) ==
    Sum4([p \in Products |-> o.qty[p] * unit_lost_sales_penalty[p]])
get_gross_profit(o) ==
    Sum4([p \in Products |-> o.qty[p] * unit_gross_profit[p]])
\* CustomerOrder.check_if_filled
check_if_filled(o) == \A p \in Products : o.allocated[p] = o.qty[p]

\* ----------------------------------------------------------------- inputs
\* initial_qtys of FulfillmentCenter.__init__, drawn small so that stock
\* runs out within a few orders
Stocks == {<<1, 0, 0, 0>>, <<2, 1, 0, 0>>}
\* the random policy spreads a stock over the bins; it is run on the larger
\* stock and one packing station only
RandomStocks == {<<2, 1, 0, 0>>}

Order(t, q) == [arrival_time |-> t, qty |-> q]
\* the ordered order stream (generate_order_source is out of scope)
OrderStreams ==
    { <<Order(0, <<1, 0, 0, 0>>)>>,
      <<Order(0, <<1, 1, 0, 0>>), Order(0, <<0, 1, 0, 0>>)>>,
      <<Order(0, <<1, 0, 0, 0>>), Order(2, <<1, 0, 0, 0>>)>> }

Shift(np, ns, nk) == [num_pickers |-> np, num_stowers |-> ns, num_packers |-> nk]
\* shift_schedule, one entry per shift
Rosters ==
    { <<Shift(1, 0, 0), Shift(0, 0, 0), Shift(0, 0, 1), Shift(0, 0, 1)>>,
      <<Shift(2, 1, 0), Shift(0, 0, 0), Shift(0, 0, 2), Shift(0, 0, 0)>>,
      <<Shift(0, 0, 0), Shift(1, 0, 0), Shift(0, 0, 0), Shift(0, 0, 1)>> }

\* inbound delivery schedule, one entry per delivery
Schedules == { <<Zero4>>, <<<<0, 1, 0, 0>>>> }

\* ------------------------------------------------------------------- Init
\* DesignatedInventoryStorage.__init__: bin p holds product p only
DesignatedBins(init) ==
    [b \in Bins |-> [p \in Products |-> IF b = p THEN init[p] ELSE 0]]

\* RandomInventoryStorage.__init__: divmod(qty, 4), remainder to bin 4
RandomBins(init) ==
    [b \in Bins |-> [p \in Products |->
        IF b = 4 THEN (init[p] \div 4) + (init[p] % 4) ELSE init[p] \div 4]]

NewOrder(d) ==
    [arrival_time |-> d.arrival_time, qty |-> d.qty, allocated |-> Zero4,
     status |-> "UNPROCESSED", time_to_arrive |-> 0, booked |-> <<>>]

InitWith(st, init, stream, ros, sch, nst) ==
    /\ now = 0
    /\ running = 0
    /\ storage_type = st
    /\ bins = IF st = "designated" THEN DesignatedBins(init) ELSE RandomBins(init)
    /\ binq = [b \in Bins |-> [p \in Products |-> <<>>]]
    /\ parking = Zero4
    /\ tracker = init
    /\ trackerq = [p \in Products |-> <<>>]
    /\ orders = [i \in 1..Len(stream) |-> NewOrder(stream[i])]
    /\ orders_source = [i \in 1..Len(stream) |-> i]
    /\ recv = [pc |-> "init", order |-> 0]
    /\ mon = [i \in 1..Len(stream) |-> "none"]
    /\ order_store = <<>>
    /\ stations = [i \in 1..nst |-> [users |-> {}, items |-> <<>>]]
    /\ workers = <<>>
    /\ mgr = [shift_idx |-> 0, current_shift |-> "evening"]
    /\ roster = ros
    /\ dock = [pc |-> "init", n |-> 0, inbound |-> Zero4, prod |-> 0]
    /\ schedule = sch
    /\ kpi = [orders_shipped |-> 0, orders_cancelled |-> 0,
              orders_discarded |-> 0, gross_profit |-> 0,
              lost_sales_penalty |-> 0, delivery_expense |-> 0,
              delivery_expense_returns |-> 0, labor_expense |-> 0,
              labor_expense_overtime |-> 0]
    /\ picked = [i \in 1..Len(stream) |-> Zero4]
    /\ delivered = init
    /\ pool = [id \in PoolIds |->
                 [put |-> IF id[1] = "bin"
                          THEN (IF st = "designated" THEN DesignatedBins(init)
                                ELSE RandomBins(init))[id[2]][id[3]]
                          ELSE IF id[1] = "tracker" THEN init[id[3]] ELSE 0,
                  got |-> 0]]
    \* env.process(...) in program order: dock, order_reciever, shift_manager
    /\ queue = << Ev(0, URGENT, "dock", 0, 0, 0), Ev(0, URGENT, "recv", 0, 0, 0),
                  Ev(0, URGENT, "mgr", 0, 0, 0) >>

InitDesignated ==
    \E init \in Stocks, stream \in OrderStreams, ros \in Rosters,
       sch \in Schedules, nst \in 1..MaxStations :
        InitWith("designated", init, stream, ros, sch, nst)

InitRandom ==
    \E init \in RandomStocks, stream \in OrderStreams, ros \in Rosters,
       sch \in Schedules :
        InitWith("random", init, stream, ros, sch, 1)

\* three pickers of one shift contend for the hoodie bin: the first wants two
\* units, the others one each, and a delivery of two is stowed meanwhile
ContendedStock == <<2, 2, 0, 0>>
ContendedStream ==
    <<Order(0, <<1, 2, 0, 0>>), Order(0, <<1, 1, 0, 0>>), Order(0, <<0, 1, 0, 0>>)>>
ContendedRoster ==
    <<Shift(3, 1, 0), Shift(0, 0, 0), Shift(0, 0, 0), Shift(0, 0, 0)>>
ContendedSchedule == <<<<0, 2, 0, 0>>>>

InitContended ==
    InitWith("designated", ContendedStock, ContendedStream, ContendedRoster,
             ContendedSchedule, 1)

\* random storage with one tshirt in every bin and a single hoodie in bin 4:
\* two pickers of one shift, the first order wants both products, the second
\* the hoodie
InitStarved ==
    InitWith("random", <<4, 1, 0, 0>>,
             <<Order(0, <<1, 1, 0, 0>>), Order(0, <<0, 1, 0, 0>>)>>,
             <<Shift(2, 0, 0), Shift(0, 0, 0), Shift(0, 0, 0), Shift(0, 0, 0)>>,
             <<Zero4>>, 1)

\* one delivery that weighs more than the whole holding area can take, its
\* weight spread evenly over the four products; nobody stows
InitOverfull ==
    InitWith("designated", <<1, 0, 0, 0>>, <<Order(0, <<1, 0, 0, 0>>)>>,
             <<Shift(1, 0, 0), Shift(0, 0, 0), Shift(0, 0, 1), Shift(0, 0, 0)>>,
             <<<<12, 6, 6, 4>>>>, 1)

\* one order of five units of a single product, in stock, one picker
InitFive ==
    InitWith("designated", <<5, 0, 0, 0>>, <<Order(0, <<5, 0, 0, 0>>)>>,
             <<Shift(1, 0, 0), Shift(0, 0, 0), Shift(0, 0, 0), Shift(0, 0, 0)>>,
             <<Zero4>>, 1)

\* random storage, empty at first; ten tshirts are delivered and one stower
\* of the first shift stows them in one trip
InitStow ==
    InitWith("random", Zero4, <<Order(0, <<1, 0, 0, 0>>)>>,
             <<Shift(0, 1, 0), Shift(0, 0, 0), Shift(0, 0, 0), Shift(0, 0, 0),
               Shift(0, 0, 0), Shift(0, 0, 0), Shift(0, 0, 0)>>,
             StowSchedule, 1)

\* one order is picked and handed over in the first shift; the first packer
\* comes with the fifth shift, after the order has expired in the queue
InitLatePacker ==
    InitWith("designated", <<1, 0, 0, 0>>, <<Order(0, <<1, 0, 0, 0>>)>>,
             <<Shift(1, 0, 0), Shift(0, 0, 0), Shift(0, 0, 0), Shift(0, 0, 0),
               Shift(0, 0, 1)>>,
             <<Zero4>>, 1)

\* two pickers hand two orders over to two stations that nobody packs at
InitTwoQueues ==
    InitWith("designated", <<2, 0, 0, 0>>,
             <<Order(0, <<1, 0, 0, 0>>), Order(0, <<1, 0, 0, 0>>)>>,
             <<Shift(2, 0, 0), Shift(0, 0, 0), Shift(0, 0, 0), Shift(0, 0, 0),
               Shift(0, 0, 0)>>,
             <<Zero4>>, 2)

\* two pickers start on two orders that both need the only hoodie; the
\* hoodie that is delivered is stowed by a stower of the second shift, after
\* the orders have expired
InitLateStow ==
    InitWith("designated", <<1, 1, 1, 0>>,
             <<Order(0, <<1, 1, 1, 0>>), Order(0, <<0, 1, 0, 0>>)>>,
             <<Shift(2, 0, 0), Shift(0, 1, 0), Shift(0, 0, 0), Shift(0, 0, 0),
               Shift(0, 0, 0)>>,
             <<<<0, 1, 0, 0>>>>, 1)

\* a delivery of one tshirt and nine pairs of sneakers: more sneakers than
\* one stower trip carries; one stower in the second shift
InitSneaks ==
    InitWith("designated", <<1, 0, 0, 0>>, <<Order(0, <<1, 0, 0, 0>>)>>,
             <<Shift(0, 0, 0), Shift(0, 1, 0), Shift(0, 0, 0), Shift(0, 0, 0),
               Shift(0, 0, 0)>>,
             <<<<1, 0, 0, 9>>>>, 1)

\* a delivery heavier than the holding area, nearly all of it tshirts, so
\* that the dock cuts the tshirts; nobody stows
InitCut ==
    InitWith("designated", <<1, 0, 0, 0>>, <<Order(0, <<1, 0, 0, 0>>)>>,
             <<Shift(1, 0, 0), Shift(0, 0, 0), Shift(0, 0, 0), Shift(0, 0, 0),
               Shift(0, 0, 0)>>,
             <<<<40, 0, 0, 1>>>>, 1)

\* random storage with one tshirt in every bin; after the first order has
\* taken one of them, bin 1 and bin 2 hold different numbers when the
\* picker of the second shift checks the other orders
InitMiscount ==
    InitWith("random", <<4, 0, 0, 0>>,
             <<Order(0, <<1, 0, 0, 0>>), Order(0, <<4, 0, 0, 0>>),
               Order(0, <<3, 0, 0, 0>>)>>,
             <<Shift(1, 0, 0), Shift(1, 0, 0), Shift(0, 0, 0), Shift(0, 0, 0),
               Shift(0, 0, 0)>>,
             <<Zero4>>, 1)

Init ==
    \/ InitDesignated \/ InitRandom \/ InitContended \/ InitStarved
    \/ InitOverfull \/ InitFive \/ InitStow \/ InitLatePacker
    \/ InitTwoQueues \/ InitLateStow \/ InitSneaks \/ InitCut
    \/ InitMiscount

\* --------------------------------------------------------- order_reciever
\* order_reciever without its wait: every order is handed over at once
RecvNextMutant(q0) ==
    IF orders_source # <<>>
    THEN /\ orders_source' = Tail(orders_source)
         /\ recv' = [pc |-> "waiting", order |-> Head(orders_source)]
         /\ queue' = Schedule(q0, Ev(T, NORMAL, "recv", 0, 0, 0))
    ELSE /\ recv' = [pc |-> "done", order |-> 0]
         /\ queue' = q0
         /\ UNCHANGED orders_source

\* the while loop head: pop the next order and wait for its arrival
RecvNext(q0) ==
    IF orders_source # <<>>
    THEN LET o == Head(orders_source)
             w == Max(0, orders[o].arrival_time - T)
         IN  /\ orders_source' = Tail(orders_source)
             /\ recv' = [pc |-> "waiting", order |-> o]
             /\ queue' = Schedule(q0, Ev(T + w, NORMAL, "recv", 0, 0, 0))
    ELSE /\ recv' = [pc |-> "done", order |-> 0]
         /\ queue' = q0
         /\ UNCHANGED orders_source

RecvInit ==
    /\ Fires("recv", 0)
    /\ recv.pc = "init"
    /\ now' = T
    /\ RecvNext(Tail(queue))
    /\ UNCHANGED <<running, storage_type, bins, binq, parking, tracker, trackerq,
                   orders, mon, order_store, stations, workers, mgr, roster,
                   dock, schedule, kpi, picked, delivered, pool>>

\* the order has arrived: ARRIVED, start its age monitor, put it in the store
RecvArrive ==
    /\ Fires("recv", 0)
    /\ recv.pc = "waiting"
    /\ now' = T
    /\ LET o == recv.order IN
        /\ orders' = [orders EXCEPT ![o].status = "ARRIVED",
                                    ![o].time_to_arrive = T]
        /\ mon' = [mon EXCEPT ![o] = "init"]
        /\ order_store' = Append(order_store, o)
        /\ RecvNext(Schedule(Tail(queue), Ev(T, URGENT, "mon", o, 0, 0)))
    /\ UNCHANGED <<running, storage_type, bins, binq, parking, tracker, trackerq,
                   stations, workers, mgr, roster, dock, schedule, kpi, picked,
                   delivered, pool>>

\* ------------------------------------------------------ order_age_monitor
MonStart(o) ==
    /\ Fires("mon", o)
    /\ mon[o] = "init"
    /\ now' = T
    /\ mon' = [mon EXCEPT ![o] = "waiting"]
    /\ queue' = Schedule(Tail(queue), Ev(T + ORDER_EXPIRATION, NORMAL, "mon", o, 0, 0))
    /\ UNCHANGED <<running, storage_type, bins, binq, parking, tracker, trackerq,
                   orders, orders_source, recv, order_store, stations, workers,
                   mgr, roster, dock, schedule, kpi, picked, delivered, pool>>

\* the guard of the cancellation: every order that is not SHIPPED
MonCancels(status) == status # "SHIPPED"

MonFire(o) ==
    /\ Fires("mon", o)
    /\ mon[o] = "waiting"
    /\ now' = T
    /\ mon' = [mon EXCEPT ![o] = "done"]
    /\ queue' = Tail(queue)
    /\ IF MonCancels(orders[o].status)
       THEN LET r == TrackerRemove(orders[o].allocated) IN
            /\ orders' = [orders EXCEPT ![o].status = "CANCELLED",
                                        ![o].booked = Append(@, "CANCELLED")]
            /\ kpi' = [kpi EXCEPT !.orders_cancelled = @ + 1,
                                  !.lost_sales_penalty =
                                      @ + get_lost_sales_penalty(orders[o])]
            /\ tracker' = r.tracker
            /\ trackerq' = r.trackerq
            /\ pool' = r.pool
       ELSE UNCHANGED <<orders, kpi, tracker, trackerq, pool>>
    /\ UNCHANGED <<running, storage_type, bins, binq, parking, orders_source,
                   recv, order_store, stations, workers, mgr, roster, dock,
                   schedule, picked, delivered>>

\* ---------------------------------------------------------- shift_manager
\* a rotation that runs backwards
NextShiftMutant(s) ==
    IF s = "morning" THEN "evening"
    ELSE IF s = "afternoon" THEN "morning" ELSE "afternoon"

NextShift(s) ==
    IF s = "morning" THEN "afternoon"
    ELSE IF s = "afternoon" THEN "evening" ELSE "morning"

\* a worker whose loop test lets one more second of work begin
NewWorkerMutant(type) ==
    [type |-> type, pc |-> "shift",
     end_shift_time |-> T + shift_length + IdleTime,
     stationed_at |-> 0, order |-> 0, prod |-> 0, amount |-> 0,
     target_bin |-> 0, bin_moves |-> 0, gets |-> <<>>, bin_path |-> <<>>,
     bin_loc |-> 0, bin_amount |-> 0, started |-> T, ended |-> 0]

NewWorker(type) ==
    [type |-> type, pc |-> "shift", end_shift_time |-> T + shift_length,
     stationed_at |-> 0, order |-> 0, prod |-> 0, amount |-> 0,
     target_bin |-> 0, bin_moves |-> 0, gets |-> <<>>, bin_path |-> <<>>,
     bin_loc |-> 0, bin_amount |-> 0, started |-> T, ended |-> 0]

\* FulfillmentCenter.get_datetime / get_week_num: the run starts on a
\* Thursday at 0:00, a day is three shifts long, and the week number is 1 for
\* the first seven days (the ISO week of the date three days earlier, less
\* the offset of the first week)
DayLength == 3 * shift_length
Weekdays == <<"Thursday", "Friday", "Saturday", "Sunday", "Monday", "Tuesday",
              "Wednesday">>
ShiftLabels == <<"morning", "afternoon", "evening">>
get_weekday(t) == Weekdays[((t \div DayLength) % 7) + 1]
get_week_num(t) == (t \div (7 * DayLength)) + 1

\* the table looked up with the previous shift's label
RosterRowMutant(week, weekday, shift) ==
    LET d == CHOOSE i \in 1..7 : Weekdays[i] = weekday
        s == CHOOSE i \in 1..3 : ShiftLabels[i] = NextShift(NextShift(shift))
        k == ((week - 1) * 7 + (d - 1)) * 3 + (s - 1)
    IN  roster[(k % Len(roster)) + 1]

\* shift_schedule[week_num][weekday][current_shift]: the rows of `roster' are
\* listed in calendar order from (week 1, Thursday, morning) and repeat
RosterRow(week, weekday, shift) ==
    LET d == CHOOSE i \in 1..7 : Weekdays[i] = weekday
        s == CHOOSE i \in 1..3 : ShiftLabels[i] = shift
        k == ((week - 1) * 7 + (d - 1)) * 3 + (s - 1)
    IN  roster[(k % Len(roster)) + 1]

\* one shift change: flip the label, spawn pickers, stowers, packers in this
\* order, then wait shift_length
ShiftChange ==
    /\ Fires("mgr", 0)
    /\ now' = T
    /\ LET idx == mgr.shift_idx + 1
           row == RosterRow(get_week_num(T), get_weekday(T),
                            NextShift(mgr.current_shift))
           new == [i \in 1..row.num_pickers |-> NewWorker("picker")]
                  \o [i \in 1..row.num_stowers |-> NewWorker("stower")]
                  \o [i \in 1..row.num_packers |-> NewWorker("packer")]
           n0  == Len(workers)
       IN
        /\ mgr' = [shift_idx |-> idx, current_shift |-> NextShift(mgr.current_shift)]
        /\ workers' = workers \o new
        /\ queue' = Schedule(
                ScheduleAll(Tail(queue), [i \in 1..Len(new) |-> Initialize(n0 + i)]),
                Ev(T + shift_length, NORMAL, "mgr", 0, 0, 0))
    /\ UNCHANGED <<running, storage_type, bins, binq, parking, tracker, trackerq,
                   orders, orders_source, recv, mon, order_store, stations,
                   roster, dock, schedule, kpi, picked, delivered, pool>>

\* ------------------------------------------------- inbound_recieving_dock
DockEv(t) == Ev(t, NORMAL, "dock", 0, 0, 0)

\* first product after p with a positive inbound quantity (0: none)
NextInbound(inbound, p) ==
    IF \E x \in Products : x > p /\ inbound[x] > 0
    THEN CHOOSE x \in Products :
            /\ x > p /\ inbound[x] > 0
            /\ \A y \in Products : (y > p /\ inbound[y] > 0) => x <= y
    ELSE 0

Weight2(v) == Sum4([p \in Products |-> v[p] * unit_weight2[p]])

\* a dock that cuts every shipment, whatever room is left
AcceptedMutant(ship) ==
    [p \in Products |->
        Min(ship[p], (2 * (Weight2(ship) \div 8)) \div unit_weight2[p])]

\* the quantities the dock accepts of a scheduled shipment: all of it, or,
\* when it weighs more than the remaining capacity, each product cut to
\* min(qty, (shipment_weight div 4) div unit_weight)
Accepted(ship) ==
    IF Weight2(ship) > inbound_parking_capacity2 - Weight2(parking)
    THEN [p \in Products |->
            Min(ship[p], (2 * (Weight2(ship) \div 8)) \div unit_weight2[p])]
    ELSE ship

DockInit ==
    /\ Fires("dock", 0)
    /\ dock.pc = "init"
    /\ now' = T
    /\ dock' = [dock EXCEPT !.pc = "deliver"]
    /\ queue' = Schedule(Tail(queue), DockEv(T + initial_wait))
    /\ UNCHANGED <<running, storage_type, bins, binq, parking, tracker, trackerq,
                   orders, orders_source, recv, mon, order_store, stations,
                   workers, mgr, roster, schedule, kpi, picked, delivered, pool>>

\* put the next product of the shipment into parking, or wait for the next
\* delivery when none is left
DockPutNext(inbound, p0, n, q0) ==
    LET p == NextInbound(inbound, p0) IN
    IF p # 0
    THEN /\ parking' = [parking EXCEPT ![p] = @ + inbound[p]]
         /\ delivered' = [delivered EXCEPT ![p] = @ + inbound[p]]
         /\ pool' = [pool EXCEPT ![<<"parking", 0, p>>].put = @ + inbound[p]]
         /\ dock' = [pc |-> "parked", n |-> n, inbound |-> inbound, prod |-> p]
         /\ queue' = Schedule(q0, DockEv(T))
    ELSE /\ dock' = [pc |-> "deliver", n |-> n, inbound |-> inbound, prod |-> 0]
         /\ queue' = Schedule(q0, DockEv(T + wait))
         /\ UNCHANGED <<parking, delivered, pool>>

DockDeliver ==
    /\ Fires("dock", 0)
    /\ dock.pc = "deliver"
    /\ now' = T
    /\ LET n == dock.n + 1
           ship == schedule[((n - 1) % Len(schedule)) + 1]
           over == Weight2(ship) > inbound_parking_capacity2 - Weight2(parking)
       IN
        /\ kpi' = [kpi EXCEPT !.delivery_expense = @ + 1,
                              !.delivery_expense_returns =
                                  IF over THEN @ + 1 ELSE @]
        /\ DockPutNext(Accepted(ship), 0, n, Tail(queue))
    /\ UNCHANGED <<running, storage_type, bins, binq, tracker, trackerq, orders,
                   orders_source, recv, mon, order_store, stations, workers,
                   mgr, roster, schedule, picked>>

\* resumed after parking.put: put the same quantity into the tracker
DockParked ==
    /\ Fires("dock", 0)
    /\ dock.pc = "parked"
    /\ now' = T
    /\ LET p == dock.prod IN
        /\ tracker' = [tracker EXCEPT ![p] = @ + dock.inbound[p]]
        /\ pool' = [pool EXCEPT ![<<"tracker", 0, p>>].put = @ + dock.inbound[p]]
    /\ dock' = [dock EXCEPT !.pc = "tracked"]
    /\ queue' = Schedule(Tail(queue), DockEv(T))
    /\ UNCHANGED <<running, storage_type, bins, binq, parking, trackerq, orders,
                   orders_source, recv, mon, order_store, stations, workers,
                   mgr, roster, schedule, kpi, picked, delivered>>

\* the tracker put event: its callback serves pending tracker gets, then the
\* dock goes on with the next product
DockTracked ==
    /\ Fires("dock", 0)
    /\ dock.pc = "tracked"
    /\ now' = T
    /\ LET p == dock.prod
           r == ServeGets(tracker[p], trackerq[p])
           n == dock.n
           nx == NextInbound(dock.inbound, p)
       IN
        /\ tracker' = [tracker EXCEPT ![p] = r.level]
        /\ trackerq' = [trackerq EXCEPT ![p] = r.rest]
        /\ IF nx # 0
           THEN /\ parking' = [parking EXCEPT ![nx] = @ + dock.inbound[nx]]
                /\ delivered' = [delivered EXCEPT ![nx] = @ + dock.inbound[nx]]
                /\ pool' = [pool EXCEPT
                      ![<<"tracker", 0, p>>].got = @ + SumAmounts(r.served),
                      ![<<"parking", 0, nx>>].put = @ + dock.inbound[nx]]
                /\ dock' = [dock EXCEPT !.pc = "parked", !.prod = nx]
                /\ queue' = Schedule(Tail(queue), DockEv(T))
           ELSE /\ pool' = [pool EXCEPT
                      ![<<"tracker", 0, p>>].got = @ + SumAmounts(r.served)]
                /\ dock' = [dock EXCEPT !.pc = "deliver", !.prod = 0]
                /\ queue' = Schedule(Tail(queue), DockEv(T + wait))
                /\ UNCHANGED <<parking, delivered>>
    /\ UNCHANGED <<running, storage_type, bins, binq, orders, orders_source,
                   recv, mon, order_store, stations, workers, mgr, roster,
                   schedule, kpi, picked>>

\* ----------------------------------------------------------- worker_shift
Static == <<storage_type, roster, schedule>>
Others == <<orders_source, recv, mon, mgr, dock>>
Stock  == <<bins, binq, picked>>
Inbound == <<parking, delivered>>
Track  == <<tracker, trackerq>>

WFires(w, pc) ==
    /\ w \in 1..Len(workers)
    /\ Fires("worker", w)
    /\ workers[w].pc = pc

\* the first station whose slot has no user (0: none): the packer's request
\* on it is granted at once
FreeStationMutant == Min(1, MaxStations)
FreeStation ==
    IF \E i \in DOMAIN stations : stations[i].users = {}
    THEN CHOOSE i \in DOMAIN stations :
            /\ stations[i].users = {}
            /\ \A j \in DOMAIN stations : stations[j].users = {} => i <= j
    ELSE 0

\* a leaving packer that keeps its slot
ReleaseSlotMutant(sts, w) == sts

\* the station a leaving packer frees: the slot object is replaced
ReleaseSlot(sts, w) ==
    IF workers[w].type = "packer" /\ workers[w].stationed_at # 0
    THEN [sts EXCEPT ![workers[w].stationed_at].users = {}]
    ELSE sts

\* overtime counted from the start of the shift
overtimeMutant(w) == T - workers[w].started
\* overtime = env.now - end_shift_time
overtime(w) == T - workers[w].end_shift_time

\* shift over: book wage and overtime, free the station, stop
WorkerEnd(w) ==
    /\ WFires(w, "shift")
    /\ T >= workers[w].end_shift_time
    /\ now' = T
    /\ queue' = Tail(queue)
    /\ kpi' = [kpi EXCEPT !.labor_expense = @ + shift_length,
                          !.labor_expense_overtime = @ + overtime(w)]
    /\ stations' = ReleaseSlot(stations, w)
    /\ workers' = [workers EXCEPT ![w].pc = "done", ![w].ended = T]
    /\ UNCHANGED <<running, Static, Others, Stock, Inbound, Track, orders,
                   order_store, pool>>

\* a picker or stower starts one unit of work as a sub-process
WorkerTask(w) ==
    /\ WFires(w, "shift")
    /\ T < workers[w].end_shift_time
    /\ workers[w].type \in {"picker", "stower"}
    /\ now' = T
    /\ queue' = Schedule(Tail(queue), Initialize(w))
    /\ workers' = [workers EXCEPT ![w].pc = workers[w].type]
    /\ UNCHANGED <<running, Static, Others, Stock, Inbound, Track, orders,
                   order_store, stations, kpi, pool>>

\* a packer: take a free station if it has none; idle a second without a
\* station, otherwise start one packer sub-process
PackerTask(w) ==
    /\ WFires(w, "shift")
    /\ T < workers[w].end_shift_time
    /\ workers[w].type = "packer"
    /\ now' = T
    /\ LET st == IF workers[w].stationed_at = 0 THEN FreeStation
                 ELSE workers[w].stationed_at
       IN
        /\ stations' = IF workers[w].stationed_at = 0 /\ st # 0
                       THEN [stations EXCEPT ![st].users = {w}]
                       ELSE stations
        /\ IF st = 0
           THEN /\ queue' = Schedule(Tail(queue), Timeout(w, IdleTime))
                /\ UNCHANGED workers
           ELSE /\ queue' = Schedule(Tail(queue), Initialize(w))
                /\ workers' = [workers EXCEPT ![w].stationed_at = st,
                                              ![w].pc = "packer"]
    /\ UNCHANGED <<running, Static, Others, Stock, Inbound, Track, orders,
                   order_store, kpi, pool>>

\* a sub-process that was idle for a second (or a stow trip) returns: the
\* worker_shift loop is resumed by the process event
SubReturn(w) ==
    /\ WFires(w, "return")
    /\ now' = T
    /\ queue' = Schedule(Tail(queue), Resume(w))
    /\ workers' = [workers EXCEPT ![w].pc = "shift"]
    /\ UNCHANGED <<running, Static, Others, Stock, Inbound, Track, orders,
                   order_store, stations, kpi, pool>>

\* ----------------------------------------------------------------- picker
PickerStart(w) ==
    /\ WFires(w, "picker")
    /\ now' = T
    /\ IF Len(order_store) > 0
       THEN /\ order_store' = Tail(order_store)
            /\ workers' = [workers EXCEPT ![w].pc = "picker_got",
                                          ![w].order = Head(order_store)]
            /\ queue' = Schedule(Tail(queue), Resume(w))
       ELSE /\ workers' = [workers EXCEPT ![w].pc = "return"]
            /\ queue' = Schedule(Tail(queue), Timeout(w, IdleTime))
            /\ UNCHANGED order_store
    /\ UNCHANGED <<running, Static, Others, Stock, Inbound, Track, orders,
                   stations, kpi, pool>>

\* DesignatedInventoryStorage.check_inventory
DesignatedCheck(o) == \A p \in Products : ~(o.qty[p] > bins[p][p])

\* a check that consults each of the four bins once
RandomCheckMutant(o) ==
    \A p \in Products :
        ~(o.qty[p] > bins[1][p] + bins[2][p] + bins[3][p] + bins[4][p])

\* RandomInventoryStorage.check_inventory: bin1 + bin1 + bin3 + bin4
RandomCheck(o) ==
    \A p \in Products :
        ~(o.qty[p] > bins[1][p] + bins[1][p] + bins[3][p] + bins[4][p])

check_inventory(o) ==
    IF storage_type = "designated" THEN DesignatedCheck(o) ELSE RandomCheck(o)

\* the popped order was cancelled in the store: the picker returns at once
PickerDrop(w) ==
    /\ WFires(w, "picker_got")
    /\ orders[workers[w].order].status = "CANCELLED"
    /\ now' = T
    /\ queue' = Schedule(Tail(queue), Resume(w))
    /\ workers' = [workers EXCEPT ![w].pc = "shift"]
    /\ UNCHANGED <<running, Static, Others, Stock, Inbound, Track, orders,
                   order_store, stations, kpi, pool>>

\* not enough inventory: discard the order and book the penalty
PickerDiscard(w) ==
    /\ WFires(w, "picker_got")
    /\ LET o == workers[w].order
           r == TrackerRemove(orders[o].allocated)
       IN
        /\ orders[o].status # "CANCELLED"
        /\ ~check_inventory(orders[o])
        /\ orders' = [orders EXCEPT ![o].status = "DISCARDED",
                                    ![o].booked = Append(@, "DISCARDED")]
        /\ kpi' = [kpi EXCEPT !.orders_discarded = @ + 1,
                              !.lost_sales_penalty =
                                  @ + get_lost_sales_penalty(orders[o])]
        /\ tracker' = r.tracker
        /\ trackerq' = r.trackerq
        /\ pool' = r.pool
    /\ now' = T
    /\ queue' = Schedule(Tail(queue), Resume(w))
    /\ workers' = [workers EXCEPT ![w].pc = "shift"]
    /\ UNCHANGED <<running, Static, Others, Stock, Inbound, order_store,
                   stations>>

\* enough inventory at this instant: start the pickup sub-process
PickerPickup(w) ==
    /\ WFires(w, "picker_got")
    /\ orders[workers[w].order].status # "CANCELLED"
    /\ check_inventory(orders[workers[w].order])
    /\ now' = T
    /\ queue' = Schedule(Tail(queue), Initialize(w))
    /\ workers' = [workers EXCEPT ![w].pc = "pickup"]
    /\ UNCHANGED <<running, Static, Others, Stock, Inbound, Track, orders,
                   order_store, stations, kpi, pool>>

\* ------------------------------ DesignatedInventoryStorage.pickup_inventory
NextWanted(qty, p) == NextInbound(qty, p)

\* an allocation of one unit whatever the order requests
DesignatedAllocMutant(o, p) == [o EXCEPT !.allocated[p] = @ + 1]

\* allocate product p to the order, then request it from bin p
DesignatedAlloc(o, p) == [o EXCEPT !.allocated[p] = @ + o.qty[p]]

DesignatedRequest(w, p, path, q0) ==
    LET o == workers[w].order
        g == BinGet(w, p, p, orders[o].qty[p], q0)
    IN  /\ orders' = [orders EXCEPT ![o] = DesignatedAlloc(@, p)]
        /\ bins' = g.bins
        /\ binq' = g.binq
        /\ picked' = g.picked
        /\ pool' = g.pool
        /\ queue' = g.queue
        /\ workers' = [workers EXCEPT ![w].pc = "d_got", ![w].prod = p,
                                      ![w].bin_path = path]

\* a pickup time that leaves out the walk between the bins
DesignatedPickupTimeMutant(o, path) ==
    TravelTime + Sum4(o.qty) * UnitTime + TravelTime

DesignatedPickupTime(o, path) ==
    TravelTime + Sum4(o.qty) * UnitTime
        + (path[Len(path)] - path[1]) * HopTime + TravelTime

DesignatedStart(w) ==
    /\ WFires(w, "pickup")
    /\ storage_type = "designated"
    /\ now' = T
    /\ DesignatedRequest(w, NextWanted(orders[workers[w].order].qty, 0), <<>>,
                         Tail(queue))
    /\ UNCHANGED <<running, Static, Others, Inbound, Track, order_store,
                   stations, kpi>>

\* a get was granted: note the bin, request the next product or walk back
DesignatedGot(w) ==
    /\ WFires(w, "d_got")
    /\ now' = T
    /\ LET o == workers[w].order
           path == Append(workers[w].bin_path, workers[w].prod)
           nx == NextWanted(orders[o].qty, workers[w].prod)
       IN  IF nx # 0
           THEN DesignatedRequest(w, nx, path, Tail(queue))
           ELSE /\ queue' = Schedule(Tail(queue),
                        Timeout(w, DesignatedPickupTime(orders[o], path)))
                /\ workers' = [workers EXCEPT ![w].pc = "pickup_wait",
                                              ![w].bin_path = path]
                /\ UNCHANGED <<orders, Stock, pool>>
    /\ UNCHANGED <<running, Static, Others, Inbound, Track, order_store,
                   stations, kpi>>

\* --------------------------------- RandomInventoryStorage.pickup_inventory
\* random.randint(max(1, b-1), min(4, b+1)) for an interior bin
Adjacent(b) ==
    IF b = 1 THEN {2}
    ELSE IF b = 4 THEN {3}
    ELSE Max(1, b - 1)..Min(4, b + 1)

\* units of each product taken at bin b for order o
RandomAmountsMutant(o, b) ==
    [p \in Products |->
        IF o.qty[p] - o.allocated[p] > 0 /\ bins[b][p] > 0
        THEN bins[b][p] ELSE 0]
RandomAmounts(o, b) ==
    [p \in Products |->
        IF o.qty[p] - o.allocated[p] > 0 /\ bins[b][p] > 0
        THEN Min(bins[b][p], o.qty[p] - o.allocated[p]) ELSE 0]

RECURSIVE GetList(_, _)
GetList(amounts, p) ==
    IF p > 4 THEN <<>>
    ELSE (IF amounts[p] > 0 THEN <<[prod |-> p, amount |-> amounts[p]]>> ELSE <<>>)
         \o GetList(amounts, p + 1)

RandomPickupTime(o, moves) ==
    TravelTime + Sum4(o.qty) * UnitTime + moves * HopTime + TravelTime

RandomStart(w) ==
    /\ WFires(w, "pickup")
    /\ storage_type = "random"
    /\ now' = T
    /\ queue' = Tail(queue)
    /\ running' = w
    /\ \E b \in Bins :
        workers' = [workers EXCEPT ![w].pc = "r_loop", ![w].target_bin = b,
                                   ![w].bin_moves = -1]
    /\ UNCHANGED <<Static, Others, Stock, Inbound, Track, orders, order_store,
                   stations, kpi, pool>>

\* the loop test succeeded: the order is filled, walk back
RandomFilled(w) ==
    /\ running = w
    /\ workers[w].pc = "r_loop"
    /\ check_if_filled(orders[workers[w].order])
    /\ running' = 0
    /\ queue' = Schedule(queue, Timeout(w,
            RandomPickupTime(orders[workers[w].order], workers[w].bin_moves)))
    /\ workers' = [workers EXCEPT ![w].pc = "pickup_wait"]
    /\ UNCHANGED <<now, Static, Others, Stock, Inbound, Track, orders,
                   order_store, stations, kpi, pool>>

\* one pass of the loop at a bin with something to take: allocate, then
\* request the first product
RandomVisit(w) ==
    /\ running = w
    /\ workers[w].pc = "r_loop"
    /\ LET o == workers[w].order
           b == workers[w].target_bin
           am == RandomAmounts(orders[o], b)
           gl == GetList(am, 1)
           g == BinGet(w, b, gl[1].prod, gl[1].amount, queue)
       IN
        /\ ~check_if_filled(orders[o])
        /\ gl # <<>>
        /\ orders' = [orders EXCEPT ![o].allocated =
                         [p \in Products |-> @[p] + am[p]]]
        /\ bins' = g.bins
        /\ binq' = g.binq
        /\ picked' = g.picked
        /\ pool' = g.pool
        /\ queue' = g.queue
        /\ workers' = [workers EXCEPT ![w].pc = "r_got", ![w].gets = gl]
    /\ running' = 0
    /\ UNCHANGED <<now, Static, Others, Inbound, Track, order_store, stations,
                   kpi>>

\* one pass of the loop at a bin with nothing to take: move on, no yield
RandomSkip(w) ==
    /\ running = w
    /\ workers[w].pc = "r_loop"
    /\ ~check_if_filled(orders[workers[w].order])
    /\ GetList(RandomAmounts(orders[workers[w].order], workers[w].target_bin), 1) = <<>>
    /\ workers[w].bin_moves < MaxMoves
    /\ \E b \in Adjacent(workers[w].target_bin) :
        workers' = [workers EXCEPT ![w].target_bin = b, ![w].bin_moves = @ + 1]
    /\ UNCHANGED <<now, queue, running, Static, Others, Stock, Inbound, Track,
                   orders, order_store, stations, kpi, pool>>

\* a get was granted: request the next product of this bin, or move on
RandomGot(w) ==
    /\ WFires(w, "r_got")
    /\ now' = T
    /\ LET rest == Tail(workers[w].gets) IN
       IF rest # <<>>
       THEN LET g == BinGet(w, workers[w].target_bin, rest[1].prod,
                            rest[1].amount, Tail(queue))
            IN  /\ bins' = g.bins
                /\ binq' = g.binq
                /\ picked' = g.picked
                /\ pool' = g.pool
                /\ queue' = g.queue
                /\ workers' = [workers EXCEPT ![w].gets = rest]
                /\ UNCHANGED running
       ELSE /\ workers[w].bin_moves < MaxMoves
            /\ \E b \in Adjacent(workers[w].target_bin) :
                workers' = [workers EXCEPT ![w].pc = "r_loop", ![w].gets = <<>>,
                                ![w].target_bin = b, ![w].bin_moves = @ + 1]
            /\ running' = w
            /\ queue' = Tail(queue)
            /\ UNCHANGED <<Stock, pool>>
    /\ UNCHANGED <<Static, Others, Inbound, Track, orders, order_store,
                   stations, kpi>>

\* ------------------------------------------------ end of pickup, hand-off
\* pickup_inventory after its timeout: FILLED unless CANCELLED
PickupStatusMutant(s) == "FILLED"
PickupStatus(s) == IF s # "CANCELLED" THEN "FILLED" ELSE s

PickupDone(w) ==
    /\ WFires(w, "pickup_wait")
    /\ now' = T
    /\ orders' = [orders EXCEPT ![workers[w].order].status = PickupStatus(@)]
    /\ queue' = Schedule(Tail(queue), Resume(w))
    /\ workers' = [workers EXCEPT ![w].pc = "picked"]
    /\ UNCHANGED <<running, Static, Others, Stock, Inbound, Track, order_store,
                   stations, kpi, pool>>

\* back in picker: the hand-off delay
PickerPicked(w) ==
    /\ WFires(w, "picked")
    /\ now' = T
    /\ queue' = Schedule(Tail(queue), Timeout(w, HandoffTime))
    /\ workers' = [workers EXCEPT ![w].pc = "handoff"]
    /\ UNCHANGED <<running, Static, Others, Stock, Inbound, Track, orders,
                   order_store, stations, kpi, pool>>

\* any installed station, whatever its queue
OptimalStationsMutant == DOMAIN stations

\* FulfillmentCenter.get_optimal_packing_station_queue: the stations with
\* the fewest queued orders, one of which random.choice picks
OptimalStations ==
    {i \in DOMAIN stations :
        \A j \in DOMAIN stations : Len(stations[i].items) <= Len(stations[j].items)}

\* the checkpoint before the hand-off
HandsOver(s) == s # "CANCELLED"

PickerHandoff(w) ==
    /\ WFires(w, "handoff")
    /\ now' = T
    /\ LET o == workers[w].order IN
       IF HandsOver(orders[o].status)
       THEN /\ orders' = [orders EXCEPT ![o].status = "WAITING_TO_PACK"]
            /\ \E i \in OptimalStations :
                stations' = [stations EXCEPT ![i].items = Append(@, o)]
       ELSE UNCHANGED <<orders, stations>>
    /\ queue' = Schedule(Tail(queue), Resume(w))
    /\ workers' = [workers EXCEPT ![w].pc = "shift"]
    /\ UNCHANGED <<running, Static, Others, Stock, Inbound, Track, order_store,
                   kpi, pool>>

\* ----------------------------------------------------------------- packer
PackerStart(w) ==
    /\ WFires(w, "packer")
    /\ now' = T
    /\ LET st == workers[w].stationed_at IN
       IF Len(stations[st].items) > 0
       THEN /\ stations' = [stations EXCEPT ![st].items = Tail(@)]
            /\ workers' = [workers EXCEPT ![w].pc = "packer_got",
                                          ![w].order = Head(stations[st].items)]
            /\ queue' = Schedule(Tail(queue), Resume(w))
       ELSE /\ workers' = [workers EXCEPT ![w].pc = "return"]
            /\ queue' = Schedule(Tail(queue), Timeout(w, IdleTime))
            /\ UNCHANGED stations
    /\ UNCHANGED <<running, Static, Others, Stock, Inbound, Track, orders,
                   order_store, kpi, pool>>

PackTime(o) == PackBaseTime + Sum4(o.allocated) * UnitTime

\* the popped order is packed only if it is WAITING_TO_PACK; otherwise the
\* packer sub-process returns at once
PackerGot(w) ==
    /\ WFires(w, "packer_got")
    /\ now' = T
    /\ IF orders[workers[w].order].status = "WAITING_TO_PACK"
       THEN /\ queue' = Schedule(Tail(queue),
                    Timeout(w, PackTime(orders[workers[w].order])))
            /\ workers' = [workers EXCEPT ![w].pc = "packing"]
       ELSE /\ queue' = Schedule(Tail(queue), Resume(w))
            /\ workers' = [workers EXCEPT ![w].pc = "shift"]
    /\ UNCHANGED <<running, Static, Others, Stock, Inbound, Track, orders,
                   order_store, stations, kpi, pool>>

\* packing is over: SHIPPED, book the profit, stop tracking the units
PackerPacked(w) ==
    /\ WFires(w, "packing")
    /\ now' = T
    /\ LET o == workers[w].order
           r == TrackerRemove(orders[o].allocated)
       IN
        /\ orders' = [orders EXCEPT ![o].status = "SHIPPED",
                                    ![o].booked = Append(@, "SHIPPED")]
        /\ kpi' = [kpi EXCEPT !.orders_shipped = @ + 1,
                              !.gross_profit = @ + get_gross_profit(orders[o])]
        /\ tracker' = r.tracker
        /\ trackerq' = r.trackerq
        /\ pool' = r.pool
    /\ queue' = Schedule(Tail(queue), Resume(w))
    /\ workers' = [workers EXCEPT ![w].pc = "shift"]
    /\ UNCHANGED <<running, Static, Others, Stock, Inbound, order_store,
                   stations>>

\* ----------------------------------------------------------------- stower
\* InventoryBin.get_max_work_product_type on inbound parking
MaxWork == LET work == [p \in Products |-> parking[p] * unit_weight2[p]]
           IN  Max(Max(work[1], work[2]), Max(work[3], work[4]))
MaxProductsMutant == {p \in Products : parking[p] > 0}
MaxProducts == {p \in Products : parking[p] * unit_weight2[p] = MaxWork}

\* math.floor(12 / unit_weight), bounded by what is in parking
TripAmountMutant(p) == StowTripWeight2 \div unit_weight2[p]
TripAmount(p) == Min(StowTripWeight2 \div unit_weight2[p], parking[p])

StowerIdle(w) ==
    /\ WFires(w, "stower")
    /\ MaxWork = 0
    /\ now' = T
    /\ queue' = Schedule(Tail(queue), Timeout(w, IdleTime))
    /\ workers' = [workers EXCEPT ![w].pc = "return"]
    /\ UNCHANGED <<running, Static, Others, Stock, Inbound, Track, orders,
                   order_store, stations, kpi, pool>>

\* take one trip's worth of the product with most work out of parking
StowerTake(w) ==
    /\ WFires(w, "stower")
    /\ MaxWork # 0
    /\ now' = T
    /\ \E p \in MaxProducts :
        LET r == ServeGets(parking[p], <<Req(w, TripAmount(p))>>) IN
        /\ parking' = [parking EXCEPT ![p] = r.level]
        /\ pool' = [pool EXCEPT ![<<"parking", 0, p>>].got = @ + SumAmounts(r.served)]
        /\ queue' = ScheduleAll(Tail(queue), ResumeAll(r.served))
        /\ workers' = [workers EXCEPT ![w].pc = "stower_got", ![w].prod = p,
                                      ![w].amount = TripAmount(p)]
    /\ UNCHANGED <<running, Static, Others, Stock, Track, orders, order_store,
                   stations, kpi, delivered>>

\* time to pick up from inbound parking
StowerGot(w) ==
    /\ WFires(w, "stower_got")
    /\ now' = T
    /\ queue' = Schedule(Tail(queue), Timeout(w, TravelTime))
    /\ workers' = [workers EXCEPT ![w].pc = "stower_loaded"]
    /\ UNCHANGED <<running, Static, Others, Stock, Inbound, Track, orders,
                   order_store, stations, kpi, pool>>

StowerLoaded(w) ==
    /\ WFires(w, "stower_loaded")
    /\ now' = T
    /\ queue' = Schedule(Tail(queue), Initialize(w))
    /\ workers' = [workers EXCEPT ![w].pc = "stow"]
    /\ UNCHANGED <<running, Static, Others, Stock, Inbound, Track, orders,
                   order_store, stations, kpi, pool>>

\* stow_inventory of either policy starts with the walk to storage
StowStart(w) ==
    /\ WFires(w, "stow")
    /\ now' = T
    /\ queue' = Schedule(Tail(queue), Timeout(w, TravelTime))
    /\ workers' = [workers EXCEPT ![w].pc = "stow_arrive"]
    /\ UNCHANGED <<running, Static, Others, Stock, Inbound, Track, orders,
                   order_store, stations, kpi, pool>>

\* a split that leaves the remainder at the first bin
BinShareMutant(amount, b) ==
    IF b = 1 THEN (amount \div 4) + (amount % 4) ELSE amount \div 4

\* RandomInventoryStorage.stow_inventory: what bin b gets of amount
BinShare(amount, b) ==
    IF b = 4 THEN (amount \div 4) + (amount % 4) ELSE amount \div 4

\* the next thing a stow does at bin b with n units left for this bin
StowStep(ws, w, b, n, q0) ==
    IF n > 0
    THEN /\ queue' = Schedule(q0, Timeout(w, UnitTime))
         /\ workers' = [ws EXCEPT ![w].pc = "stow_unit", ![w].bin_loc = b,
                                       ![w].bin_amount = n]
    ELSE IF storage_type = "random" /\ b < 4
    THEN /\ queue' = Schedule(q0, Timeout(w, HopTime))
         /\ workers' = [ws EXCEPT ![w].pc = "stow_moved", ![w].bin_loc = b + 1,
                            ![w].bin_amount = BinShare(workers[w].amount, b + 1)]
    ELSE /\ queue' = Schedule(q0, Timeout(w, TravelTime))
         /\ workers' = [ws EXCEPT ![w].pc = "stow_back", ![w].bin_loc = b,
                                       ![w].bin_amount = 0]

\* every product is stowed in the first bin
designated_binMutant(p) == 1
\* DesignatedInventoryStorage.stow_inventory: tshirt -> bin1, hoodie -> bin2,
\* spants -> bin3, sneaks -> bin4
designated_bin(p) == p

\* at storage: designated goes to the product's bin, random to bin 1 with a
\* move time of 0
StowArrive(w) ==
    /\ WFires(w, "stow_arrive")
    /\ now' = T
    /\ IF storage_type = "designated"
       THEN StowStep(workers, w, designated_bin(workers[w].prod),
                     workers[w].amount, Tail(queue))
       ELSE /\ queue' = Schedule(Tail(queue), Timeout(w, 0))
            /\ workers' = [workers EXCEPT ![w].pc = "stow_moved", ![w].bin_loc = 1,
                               ![w].bin_amount = BinShare(workers[w].amount, 1)]
    /\ UNCHANGED <<running, Static, Others, Stock, Inbound, Track, orders,
                   order_store, stations, kpi, pool>>

StowMoved(w) ==
    /\ WFires(w, "stow_moved")
    /\ now' = T
    /\ StowStep(workers, w, workers[w].bin_loc, workers[w].bin_amount, Tail(queue))
    /\ UNCHANGED <<running, Static, Others, Stock, Inbound, Track, orders,
                   order_store, stations, kpi, pool>>

\* one unit stowed: put(1) into the container, never yielded
StowUnit(w) ==
    /\ WFires(w, "stow_unit")
    /\ now' = T
    /\ LET b == workers[w].bin_loc
           p == workers[w].prod
       IN
        /\ bins' = [bins EXCEPT ![b][p] = @ + 1]
        /\ pool' = [pool EXCEPT ![<<"bin", b, p>>].put = @ + 1]
        /\ StowStep(workers, w, b,
                    workers[w].bin_amount - 1,
                    Schedule(Tail(queue), PutEvent(b, p)))
    /\ UNCHANGED <<running, Static, Others, binq, picked, Inbound, Track,
                   orders, order_store, stations, kpi>>

\* back at inbound parking: stow_inventory ends, stower is resumed
StowBack(w) ==
    /\ WFires(w, "stow_back")
    /\ now' = T
    /\ queue' = Schedule(Tail(queue), Resume(w))
    /\ workers' = [workers EXCEPT ![w].pc = "return"]
    /\ UNCHANGED <<running, Static, Others, Stock, Inbound, Track, orders,
                   order_store, stations, kpi, pool>>

\* ------------------------------------------------------- container events
\* the event of a put into a storage bin: its callback serves the blocked
\* gets of that container
BinPut ==
    /\ running = 0
    /\ queue # <<>>
    /\ Ev0.time < Until
    /\ Ev0.kind = "binput"
    /\ now' = T
    /\ LET b == Ev0.bin
           p == Ev0.prod
           r == ServeGets(bins[b][p], binq[b][p])
       IN
        /\ bins' = [bins EXCEPT ![b][p] = r.level]
        /\ binq' = [binq EXCEPT ![b][p] = r.rest]
        /\ picked' = AddPicked(picked, r.served, p)
        /\ pool' = [pool EXCEPT ![<<"bin", b, p>>].got = @ + SumAmounts(r.served)]
        /\ queue' = ScheduleAll(Tail(queue), ResumeAll(r.served))
    /\ UNCHANGED <<running, Static, Others, Inbound, Track, orders, order_store,
                   stations, workers, kpi>>

\* ------------------------------------------------------------------- Next
WorkerIds == 1..Len(workers)

Next ==
    \/ RecvInit
    \/ RecvArrive
    \/ \E o \in DOMAIN orders : MonStart(o)
    \/ \E o \in DOMAIN orders : MonFire(o)
    \/ ShiftChange
    \/ DockInit
    \/ DockDeliver
    \/ DockParked
    \/ DockTracked
    \/ BinPut
    \/ \E w \in WorkerIds : WorkerEnd(w)
    \/ \E w \in WorkerIds : WorkerTask(w)
    \/ \E w \in WorkerIds : PackerTask(w)
    \/ \E w \in WorkerIds : SubReturn(w)
    \/ \E w \in WorkerIds : PickerStart(w)
    \/ \E w \in WorkerIds : PickerDrop(w)
    \/ \E w \in WorkerIds : PickerDiscard(w)
    \/ \E w \in WorkerIds : PickerPickup(w)
    \/ \E w \in WorkerIds : DesignatedStart(w)
    \/ \E w \in WorkerIds : DesignatedGot(w)
    \/ \E w \in WorkerIds : RandomStart(w)
    \/ \E w \in WorkerIds : RandomFilled(w)
    \/ \E w \in WorkerIds : RandomVisit(w)
    \/ \E w \in WorkerIds : RandomSkip(w)
    \/ \E w \in WorkerIds : RandomGot(w)
    \/ \E w \in WorkerIds : PickupDone(w)
    \/ \E w \in WorkerIds : PickerPicked(w)
    \/ \E w \in WorkerIds : PickerHandoff(w)
    \/ \E w \in WorkerIds : PackerStart(w)
    \/ \E w \in WorkerIds : PackerGot(w)
    \/ \E w \in WorkerIds : PackerPacked(w)
    \/ \E w \in WorkerIds : StowerIdle(w)
    \/ \E w \in WorkerIds : StowerTake(w)
    \/ \E w \in WorkerIds : StowerGot(w)
    \/ \E w \in WorkerIds : StowerLoaded(w)
    \/ \E w \in WorkerIds : StowStart(w)
    \/ \E w \in WorkerIds : StowArrive(w)
    \/ \E w \in WorkerIds : StowMoved(w)
    \/ \E w \in WorkerIds : StowUnit(w)
    \/ \E w \in WorkerIds : StowBack(w)

Spec == Init /\ [][Next]_vars
SpecD == InitDesignated /\ [][Next]_vars
SpecR == InitRandom /\ [][Next]_vars

\* ------------------------------------------------------------- type check
Statuses == {"UNPROCESSED", "ARRIVED", "FILLED", "WAITING_TO_PACK", "SHIPPED",
             "DISCARDED", "CANCELLED"}
Terminal == {"SHIPPED", "DISCARDED", "CANCELLED"}

TypeOK ==
    /\ now \in Nat
    /\ \A o \in DOMAIN orders : orders[o].status \in Statuses
    /\ \A i \in 1..Len(queue) - 1 : EvBefore(queue[i], queue[i + 1])
    /\ \A i \in 1..Len(queue) : queue[i].time >= now

\* ------------------------------------------------------ derived notions
OrderIds == DOMAIN orders

\* the station queues an order sits in
Queued(sts, o) == \E i \in DOMAIN sts : \E k \in 1..Len(sts[i].items) : sts[i].items[k] = o

\* worker w has a get pending in the queue of bins[b][p]
BlockedAt(bq, w, b, p) == \E i \in 1..Len(bq[b][p]) : bq[b][p][i].proc = w
Blocked(bq, w) == \E b \in Bins, p \in Products : BlockedAt(bq, w, b, p)

\* the get a picker is waiting for inside pickup_inventory (b = 0: none)
Awaits(ws, w) ==
    IF ws[w].pc = "d_got"
    THEN [b |-> ws[w].prod, p |-> ws[w].prod, n |-> orders[ws[w].order].qty[ws[w].prod]]
    ELSE IF ws[w].pc = "r_got"
    THEN [b |-> ws[w].target_bin, p |-> Head(ws[w].gets).prod,
          n |-> Head(ws[w].gets).amount]
    ELSE [b |-> 0, p |-> 0, n |-> 0]

\* units a stower holds between its get on parking and its puts into bins:
\* the trip amount until stow_inventory starts putting, then what is left
\* for this bin and, under the random policy, for the bins after it
RECURSIVE SharesAfter(_, _)
SharesAfter(amount, b) ==
    IF b >= NumBins THEN 0 ELSE BinShare(amount, b + 1) + SharesAfter(amount, b + 1)

Carried(w) ==
    IF workers[w].pc \in {"stower_got", "stower_loaded", "stow", "stow_arrive"}
    THEN workers[w].amount
    ELSE IF workers[w].pc \in {"stow_moved", "stow_unit"}
    THEN workers[w].bin_amount
         + (IF storage_type = "random"
            THEN SharesAfter(workers[w].amount, workers[w].bin_loc) ELSE 0)
    ELSE 0

RECURSIVE SumOver(_, _)
SumOver(f, S) ==
    IF S = {} THEN 0
    ELSE LET x == CHOOSE y \in S : TRUE IN f[x] + SumOver(f, S \ {x})

InBins(p) == SumOver([b \in Bins |-> bins[b][p]], Bins)
InFlight(p) ==
    SumOver([o \in OrderIds |-> IF orders[o].status \in Terminal THEN 0
                                 ELSE orders[o].allocated[p]], OrderIds)
\* units the tracker was asked to stop tracking at ship / cancel / discard
Released(p) == pool[<<"tracker", 0, p>>].got + SumAmounts(trackerq[p])
Picked(p) == SumOver([o \in OrderIds |-> picked[o][p]], OrderIds)
WithStowers(p) ==
    SumOver([w \in WorkerIds |-> IF workers[w].type = "stower" /\ workers[w].prod = p
                                  THEN Carried(w) ELSE 0], WorkerIds)

\* the edges of the order state machine
Edges ==
    { <<"UNPROCESSED", "ARRIVED">>, <<"ARRIVED", "FILLED">>,
      <<"FILLED", "WAITING_TO_PACK">>, <<"WAITING_TO_PACK", "SHIPPED">>,
      <<"ARRIVED", "DISCARDED">>, <<"ARRIVED", "CANCELLED">>,
      <<"FILLED", "CANCELLED">>, <<"WAITING_TO_PACK", "CANCELLED">> }

PickupPcs == {"pickup", "d_got", "r_loop", "r_got", "pickup_wait", "picked", "handoff"}

\* ----------------------------------------------------------------- claims
\* C1: for every order and every product, at every moment, the quantity
\* allocated to the order is at most the quantity the order requested.
C1_AllocatedWithinRequested ==
    \A o \in OrderIds, p \in Products : orders[o].allocated[p] <= orders[o].qty[p]

\* an order of two products fully allocated while its picker is still
\* inside the pickup
C1_Witness ==
    \E w \in WorkerIds :
        /\ workers[w].type = "picker"
        /\ workers[w].pc \in {"d_got", "r_got", "pickup_wait"}
        /\ orders[workers[w].order].allocated = orders[workers[w].order].qty
        /\ orders[workers[w].order].qty[1] > 0
        /\ orders[workers[w].order].qty[2] > 0

\* C2 (as stated): once an order is SHIPPED, CANCELLED or DISCARDED its
\* status never changes again.
C2_TerminalIsFinal ==
    [][\A o \in OrderIds :
          orders[o].status \in Terminal => orders'[o].status = orders[o].status]_vars

\* C3 (as stated): every order that arrives ends in exactly one terminal
\* status, entered no later than ORDER_EXPIRATION after its arrival, and is
\* never counted under two outcomes.
C3_OneOutcome ==
    \A o \in OrderIds :
        /\ Len(orders[o].booked) <= 1
        /\ mon[o] = "done" => /\ orders[o].status \in Terminal
                              /\ Len(orders[o].booked) = 1
        /\ (orders[o].status \in Terminal /\ orders[o].booked # <<>>)
               => orders[o].status = orders[o].booked[1]

\* C4 (as stated): per product, units in bins + units allocated to orders in
\* flight + units in inbound parking + units shipped or released equal the
\* units ever brought into the building.
C4_ConservationAsStated ==
    \A p \in Products :
        InBins(p) + InFlight(p) + parking[p] + Released(p) = delivered[p]

\* C4 (amended): per product, units in bins + units actually acquired from
\* bins for orders + units in inbound parking + units carried by stowers
\* between parking and the bins equal the units ever brought in.
C4_Conservation ==
    \A p \in Products :
        InBins(p) + Picked(p) + parking[p] + WithStowers(p) = delivered[p]

\* a stower is between parking and the bins with units in hand while an
\* order holds units taken out of the bins and is allocated a unit that its
\* picker has not been granted yet
C4_Witness ==
    \E w \in WorkerIds, o \in OrderIds :
        /\ workers[w].type = "stower"
        /\ Carried(w) > 0
        /\ Sum4(picked[o]) > 0
        /\ \E p \in Products : orders[o].allocated[p] > picked[o][p]

\* C5: the balance of every quantity pool is never negative, and the units
\* acquired from it never exceed its initial balance plus the units
\* released into it.
C5_PoolsNeverOverdrawn ==
    \A id \in PoolIds :
        /\ Level(id) >= 0
        /\ pool[id].got <= pool[id].put
        /\ Level(id) = pool[id].put - pool[id].got

\* an emptied bin pool with an acquire pending on it
C5_Witness ==
    \E b \in Bins, p \in Products :
        /\ binq[b][p] # <<>>
        /\ bins[b][p] = 0
        /\ pool[<<"bin", b, p>>].got = pool[<<"bin", b, p>>].put
        /\ pool[<<"bin", b, p>>].got > 0

\* C6: every packing station is bound to at most one packer whose shift has
\* not ended, also across shift changes.
C6_StationExclusive ==
    \A i \in DOMAIN stations :
        /\ Cardinality({w \in WorkerIds : /\ workers[w].type = "packer"
                                          /\ workers[w].pc # "done"
                                          /\ workers[w].stationed_at = i}) <= 1
        /\ \A w \in WorkerIds :
              (workers[w].type = "packer" /\ workers[w].pc # "done"
                 /\ workers[w].stationed_at = i) => stations[i].users = {w}

\* a packer took over the station of a packer that worked overtime past the
\* shift change that spawned the newcomer
C6_Witness ==
    \E w1, w2 \in WorkerIds :
        /\ workers[w1].type = "packer" /\ workers[w2].type = "packer"
        /\ workers[w1].pc = "done" /\ workers[w2].pc # "done"
        /\ workers[w1].stationed_at # 0
        /\ workers[w2].stationed_at = workers[w1].stationed_at
        /\ workers[w2].started < workers[w1].ended

\* C7 (as stated): an order's status changes only along the edges
\* UNPROCESSED -> ARRIVED -> FILLED -> WAITING_TO_PACK -> SHIPPED,
\* ARRIVED -> DISCARDED, and ARRIVED / FILLED / WAITING_TO_PACK -> CANCELLED.
C7_OnlyEdges ==
    [][\A o \in OrderIds :
          orders'[o].status # orders[o].status
              => <<orders[o].status, orders'[o].status>> \in Edges]_vars

\* C8: when pickers request the last unit of a product in one bin, the
\* request that finds the unit is granted at once and the bin is not
\* overdrawn; the other picker is queued, its pickup makes no progress while
\* it is queued, and it is granted only after a put has raised the level of
\* that bin to what it asked for.
C8_LastUnitRace ==
    [][\A w \in WorkerIds :
          LET a  == Awaits(workers, w)
              a2 == Awaits(workers', w)
              o  == workers[w].order
          IN
          \* a request issued in this step: granted iff the bin covers it
          \* after the requests queued before it
          /\ (a2.b # 0 /\ a2 # a) =>
                /\ Blocked(binq', w) <=>
                      bins[a2.b][a2.p] < SumAmounts(binq[a2.b][a2.p]) + a2.n
                /\ Blocked(binq', w) => BlockedAt(binq', w, a2.b, a2.p)
                /\ ~Blocked(binq', w) => picked'[workers'[w].order][a2.p]
                                            = picked[workers'[w].order][a2.p] + a2.n
          \* a queued picker stays where it is
          /\ (Blocked(binq, w) /\ Blocked(binq', w)) =>
                /\ workers'[w] = workers[w]
                /\ picked'[o] = picked[o]
                /\ \A i \in 1..Len(queue') :
                      ~(queue'[i].kind = "worker" /\ queue'[i].id = w)
          \* and leaves the queue only when the bin held what it asked for
          /\ (Blocked(binq, w) /\ ~Blocked(binq', w)) =>
                /\ bins[a.b][a.p] >= a.n
                /\ pool[<<"bin", a.b, a.p>>].put > pool[<<"bin", a.b, a.p>>].got
                /\ picked'[o][a.p] = picked[o][a.p] + a.n
                /\ workers'[w] = workers[w]
      ]_vars

\* two pickers asked for one unit of the same product of the same bin, the
\* bin held one: one of them has it, the other is queued on the empty bin
C8_Witness ==
    \E w1, w2 \in WorkerIds :
        /\ w1 # w2
        /\ Awaits(workers, w2).b # 0
        /\ Awaits(workers, w2).n = 1
        /\ BlockedAt(binq, w2, Awaits(workers, w2).b, Awaits(workers, w2).p)
        /\ bins[Awaits(workers, w2).b][Awaits(workers, w2).p] = 0
        /\ workers[w1].type = "picker" /\ workers[w1].pc \in PickupPcs
        /\ picked[workers[w1].order][Awaits(workers, w2).p] = 1
        /\ pool[<<"bin", Awaits(workers, w2).b, Awaits(workers, w2).p>>].put = 1
        /\ pool[<<"bin", Awaits(workers, w2).b, Awaits(workers, w2).p>>].got = 1

\* C9: an order still in the order store and never taken by a picker
\* becomes CANCELLED exactly ORDER_EXPIRATION after its arrival (and not
\* before or later); the step raises the cancelled counter by one and the
\* lost-sales penalty by the sum of requested quantity times unit penalty,
\* and leaves the inventory tracker alone.
C9_ExpiryInStore ==
    [][\A o \in OrderIds :
          LET inStore(os) == \E i \in 1..Len(os) : os[i] = o IN
          /\ (inStore(order_store) /\ orders[o].status = "ARRIVED"
                /\ orders'[o].status # "ARRIVED") =>
                /\ orders'[o].status = "CANCELLED"
                /\ now' = orders[o].time_to_arrive + ORDER_EXPIRATION
                /\ kpi'.orders_cancelled = kpi.orders_cancelled + 1
                /\ kpi'.lost_sales_penalty = kpi.lost_sales_penalty
                      + Sum4([p \in Products |->
                                orders[o].qty[p] * unit_lost_sales_penalty[p]])
                /\ tracker' = tracker
                /\ trackerq' = trackerq
                /\ inStore(order_store')
          /\ (inStore(order_store') /\ orders'[o].status = "ARRIVED") =>
                now' <= orders'[o].time_to_arrive + ORDER_EXPIRATION
          /\ (inStore(order_store') /\ orders'[o].status = "CANCELLED") =>
                now' >= orders'[o].time_to_arrive + ORDER_EXPIRATION
      ]_vars

\* an order that expired in the store, with nothing allocated to it
C9_Witness ==
    \E o \in OrderIds :
        /\ \E i \in 1..Len(order_store) : order_store[i] = o
        /\ orders[o].status = "CANCELLED"
        /\ orders[o].booked = <<"CANCELLED">>
        /\ orders[o].allocated = Zero4
        /\ kpi.orders_cancelled >= 1

\* C10: when an order is cancelled while its pickup is in progress, the
\* picker still makes every remaining acquire, waits the full pickup time
\* and the 30-second hand-off; the order stays CANCELLED, is never marked
\* FILLED or WAITING_TO_PACK, and is never put on a packing-station queue.
C10_CancelledDuringPickup ==
    [][\A w \in WorkerIds :
          LET o == workers[w].order
              pc == workers[w].pc
              pc2 == workers'[w].pc
              at(t) == \E i \in 1..Len(queue') :
                          /\ queue'[i].kind = "worker" /\ queue'[i].id = w
                          /\ queue'[i].time = t
          IN
          (workers[w].type = "picker" /\ pc \in PickupPcs
              /\ orders[o].status = "CANCELLED") =>
             /\ orders'[o].status = "CANCELLED"
             /\ ~Queued(stations', o)
             \* the pickup is not cut short
             /\ pc2 # pc => \/ pc2 \in PickupPcs \ {"pickup"}
                            \/ pc = "handoff" /\ pc2 = "shift"
             /\ (pc2 = "pickup_wait" /\ pc # "pickup_wait") =>
                   /\ picked'[o] = orders[o].qty
                   /\ at(now' + TravelTime + Sum4(orders[o].qty) * UnitTime
                             + TravelTime
                             + HopTime * (IF storage_type = "designated"
                                          THEN workers'[w].bin_path[Len(workers'[w].bin_path)]
                                               - workers'[w].bin_path[1]
                                          ELSE workers'[w].bin_moves))
             /\ (pc2 = "handoff" /\ pc = "picked") => at(now' + HandoffTime)
             /\ (pc2 = "shift" /\ pc = "handoff") => at(now')
      ]_vars

\* a picker is through its hand-off with an order that was cancelled before
\* the pickup timeout ended: all units acquired, the order CANCELLED and on
\* no station queue
C10_Witness ==
    \E w \in WorkerIds :
        LET o == workers[w].order IN
        /\ workers[w].type = "picker"
        /\ workers[w].pc = "shift"
        /\ o # 0
        /\ orders[o].status = "CANCELLED"
        /\ orders[o].booked = <<"CANCELLED">>
        /\ picked[o] = orders[o].qty
        /\ ~Queued(stations, o)
        /\ \E i \in 1..Len(queue) :
              queue[i].kind = "worker" /\ queue[i].id = w /\ queue[i].time = now
        /\ orders[o].time_to_arrive + ORDER_EXPIRATION < now - HandoffTime

\* C11: every order of a time-ordered stream becomes ARRIVED and is put at
\* the tail of the single incoming-order store exactly at its arrival time;
\* the store changes only by such a put or by a picker taking its head, so
\* when a picker pops an order every order enqueued before it has already
\* been popped.
C11_ArrivalAndFifo ==
    [][/\ \A o \in OrderIds :
            (orders[o].status = "UNPROCESSED"
                /\ orders'[o].status # "UNPROCESSED") =>
               /\ orders'[o].status = "ARRIVED"
               /\ now' = orders[o].arrival_time
               /\ orders'[o].time_to_arrive = orders[o].arrival_time
               /\ order_store' = Append(order_store, o)
       /\ order_store' # order_store =>
            \/ \E o \in OrderIds :
                  /\ orders[o].status = "UNPROCESSED"
                  /\ order_store' = Append(order_store, o)
            \/ /\ order_store # <<>>
               /\ order_store' = Tail(order_store)
               /\ \E w \in WorkerIds :
                     /\ workers[w].type = "picker"
                     /\ workers[w].pc = "picker"
                     /\ workers'[w].pc = "picker_got"
                     /\ workers'[w].order = Head(order_store)
       /\ \A w \in WorkerIds :
            (workers[w].type = "picker"
                /\ workers'[w].pc = "picker_got" /\ workers[w].pc = "picker") =>
               LET b == workers'[w].order IN
               /\ order_store # <<>> /\ b = Head(order_store)
               \* every order enqueued before b is out of the store
               /\ \A a \in OrderIds :
                     (orders[a].status # "UNPROCESSED"
                         /\ orders[a].time_to_arrive < orders[b].time_to_arrive)
                       => \A i \in 1..Len(order_store') : order_store'[i] # a
       /\ \A i, j \in 1..Len(order_store') :
            i < j => orders'[order_store'[i]].time_to_arrive
                        <= orders'[order_store'[j]].time_to_arrive
      ]_vars

\* two orders arrived at different times and were popped by two pickers;
\* the later one is held by the picker that popped second
C11_Witness ==
    \E w1, w2 \in WorkerIds : \E a, b \in OrderIds :
        /\ workers[w1].type = "picker" /\ workers[w2].type = "picker"
        /\ workers[w1].order = a /\ workers[w2].order = b
        /\ orders[a].arrival_time < orders[b].arrival_time
        /\ orders[b].time_to_arrive = orders[b].arrival_time
        /\ orders[b].arrival_time > 0
        /\ workers[w2].pc = "picker_got"

\* a sequence s is what is left of t after some of its first elements left
IsSuffix(s, t) == \E k \in 0..Len(t) : s = SubSeq(t, k + 1, Len(t))

\* C12: the acquires blocked on one quantity pool are served first in, first
\* out: a new acquire joins at the tail, waiters leave only from the head (so
\* a later acquire never succeeds while an earlier one is still blocked, even
\* when the pool could meet it), waiters served together are resumed in
\* their queue order, and the head waiter stays blocked only while the pool
\* cannot meet it or the release that can is still being processed.
C12_FifoPerPool ==
    [][/\ \A b \in Bins, p \in Products :
            LET q == binq[b][p]
                q2 == binq'[b][p]
                k == Len(q) - Len(q2)
                pos(w) == CHOOSE i \in 1..Len(queue') :
                            /\ queue'[i].kind = "worker" /\ queue'[i].id = w
                            /\ queue'[i].time = now'
            IN
            /\ \/ IsSuffix(q2, q)
               \/ /\ q2 # <<>>
                  /\ IsSuffix(SubSeq(q2, 1, Len(q2) - 1), q)
                  /\ \A i \in 1..Len(q) : q[i].proc # q2[Len(q2)].proc
            /\ (IsSuffix(q2, q) /\ k > 0) =>
                  /\ \A i \in 1..k :
                        \E e \in 1..Len(queue') :
                            /\ queue'[e].kind = "worker"
                            /\ queue'[e].id = q[i].proc
                            /\ queue'[e].time = now'
                  /\ \A i, j \in 1..k : i < j => pos(q[i].proc) < pos(q[j].proc)
            \* units are granted to nobody before the earliest waiter
            /\ (q # <<>> /\ pool'[<<"bin", b, p>>].got # pool[<<"bin", b, p>>].got) =>
                  \A i \in 1..Len(q2) : q2[i].proc # q[1].proc
            /\ (q2 # <<>> /\ Head(q2).amount <= bins'[b][p]) =>
                  \E e \in 1..Len(queue') :
                      /\ queue'[e].kind = "binput"
                      /\ queue'[e].bin = b /\ queue'[e].prod = p
                      /\ queue'[e].time = now'
       /\ \A p \in Products :
            \/ IsSuffix(trackerq'[p], trackerq[p])
            \/ /\ trackerq'[p] # <<>>
               /\ IsSuffix(SubSeq(trackerq'[p], 1, Len(trackerq'[p]) - 1),
                           trackerq[p])
      ]_vars

\* two pickers waited on the hoodie bin; after a unit was stowed the earlier
\* one (two units) has been served and the later one (one unit) still waits
C12_Witness ==
    \E w1, w2 \in WorkerIds : \E b \in Bins, p \in Products :
        /\ w1 # w2
        /\ binq[b][p] = <<Req(w2, 1)>>
        /\ workers[w1].order # 0
        /\ orders[workers[w1].order].qty[p] = 2
        /\ picked[workers[w1].order][p] = 2
        /\ bins[b][p] = 0
        /\ pool[<<"bin", b, p>>].put = ContendedStock[p] + 1

\* the later acquire is held behind the earlier one although the pool could
\* meet it
C12_HeldBehind ==
    \E w1, w2 \in WorkerIds : \E b \in Bins, p \in Products :
        /\ binq[b][p] = <<Req(w1, 2), Req(w2, 1)>>
        /\ bins[b][p] = 1

\* C13: when a picker has popped a non-cancelled order for which
\* check_inventory is false, the order becomes DISCARDED in the instant of
\* the pop, the discarded counter goes up by one and the lost-sales total by
\* the sum of quantity times unit penalty; no bin level, holding-area level,
\* tracker level or allocated quantity changes, and a discarded order is
\* never again put in the store, on a station queue, popped or allocated to.
C13_DiscardOnUnavailable ==
    [][/\ \A w \in WorkerIds :
            LET o == workers[w].order IN
            (workers[w].type = "picker" /\ workers[w].pc = "picker_got"
                /\ workers'[w].pc # "picker_got"
                /\ orders[o].status # "CANCELLED"
                /\ ~check_inventory(orders[o])) =>
               /\ now' = now
               /\ orders'[o].status = "DISCARDED"
               /\ kpi'.orders_discarded = kpi.orders_discarded + 1
               /\ kpi'.lost_sales_penalty = kpi.lost_sales_penalty
                     + Sum4([p \in Products |->
                               orders[o].qty[p] * unit_lost_sales_penalty[p]])
               /\ bins' = bins
               /\ parking' = parking
               /\ tracker' = tracker /\ trackerq' = trackerq
               /\ orders'[o].allocated = orders[o].allocated
               /\ workers'[w].pc = "shift"
       /\ \A o \in OrderIds :
            (\E i \in 1..Len(orders[o].booked) : orders[o].booked[i] = "DISCARDED") =>
               /\ \A i \in 1..Len(order_store') : order_store'[i] # o
               /\ ~Queued(stations', o)
               /\ orders'[o].allocated = Zero4
               /\ picked'[o] = Zero4
               /\ \A w \in WorkerIds :
                     workers'[w].order = o => workers[w].order = o
               /\ \A w \in WorkerIds :
                     workers[w].order = o => workers[w].pc \notin PickupPcs
      ]_vars

\* a picker is back in its shift loop after discarding the order it popped:
\* one discard and its penalty are booked, nothing was allocated or picked
C13_Witness ==
    \E w \in WorkerIds :
        LET o == workers[w].order IN
        /\ workers[w].type = "picker" /\ workers[w].pc = "shift"
        /\ o # 0
        /\ orders[o].status = "DISCARDED"
        /\ orders[o].booked = <<"DISCARDED">>
        /\ Sum4(orders[o].qty) > 1
        /\ kpi.orders_discarded = 1
        /\ kpi.lost_sales_penalty =
              Sum4([p \in Products |-> orders[o].qty[p] * unit_lost_sales_penalty[p]])
        /\ orders[o].allocated = Zero4 /\ picked[o] = Zero4
        /\ tracker = delivered

\* C14: a packer is inside a packer sub-process (popping from a station
\* queue, packing) only while it is the user of that station's slot, and an
\* order leaves a station queue only into the hands of that packer; a packer
\* without a station that finds none free only waits one second, and when it
\* reaches its shift end without ever having had a station it has shipped
\* nothing, ends exactly at the shift end and is charged the base wage.
C14_PackerNeedsStation ==
    [][/\ \A w \in WorkerIds :
            (workers'[w].type = "packer"
                /\ workers'[w].pc \in {"packer", "packer_got", "packing"}) =>
               /\ workers'[w].stationed_at \in DOMAIN stations
               /\ stations'[workers'[w].stationed_at].users = {w}
       /\ \A i \in DOMAIN stations :
            Len(stations'[i].items) < Len(stations[i].items) =>
               \E w \in WorkerIds :
                   /\ workers[w].type = "packer"
                   /\ workers[w].stationed_at = i
                   /\ stations[i].users = {w}
                   /\ workers'[w].order = Head(stations[i].items)
                   /\ stations'[i].items = Tail(stations[i].items)
       /\ \A o \in OrderIds :
            (orders'[o].status = "SHIPPED" /\ orders[o].status # "SHIPPED") =>
               \E w \in WorkerIds :
                   /\ workers[w].order = o /\ workers[w].pc = "packing"
                   /\ stations[workers[w].stationed_at].users = {w}
       /\ \A w \in WorkerIds :
            (/\ workers[w].type = "packer" /\ workers[w].pc = "shift"
             /\ workers[w].stationed_at = 0
             /\ running = 0 /\ queue # <<>>
             /\ Head(queue).kind = "worker" /\ Head(queue).id = w
             /\ (FreeStation = 0 \/ now' >= workers[w].end_shift_time)) =>
               IF now' < workers[w].end_shift_time
               THEN /\ workers' = workers /\ stations' = stations
                    /\ orders' = orders /\ kpi' = kpi
                    /\ \E e \in 1..Len(queue') :
                          /\ queue'[e].kind = "worker" /\ queue'[e].id = w
                          /\ queue'[e].time = now' + IdleTime
               ELSE /\ workers'[w].pc = "done"
                    /\ workers[w].order = 0
                    /\ now' = workers[w].started + shift_length
                    /\ kpi'.orders_shipped = kpi.orders_shipped
                    /\ kpi'.labor_expense = kpi.labor_expense + shift_length
                    /\ kpi'.labor_expense_overtime = kpi.labor_expense_overtime
      ]_vars

\* a packer ended its shift without ever having a station, while the other
\* packer of its shift held the only one: no order, base wage booked
C14_Witness ==
    \E w, v \in WorkerIds :
        /\ w # v
        /\ workers[w].type = "packer" /\ workers[v].type = "packer"
        /\ workers[w].started = workers[v].started
        /\ workers[v].stationed_at # 0
        /\ workers[w].stationed_at = 0
        /\ workers[w].pc = "done"
        /\ workers[w].order = 0
        /\ workers[w].ended = workers[w].started + shift_length
        /\ kpi.labor_expense >= shift_length

\* C15: a worker begins a unit of role work (a picker, stower or packer
\* sub-process with its pop, its trip or its idle second, or the idle second
\* of a packer without station) only at a time before its spawn time plus
\* the shift length; at or after that time its shift loop ends; and a worker
\* ends only from its shift loop, never while a unit of work is in progress.
C15_ShiftEnd ==
    [][\A w \in DOMAIN workers :
          LET end == workers[w].started + shift_length
              mine == /\ running = 0 /\ queue # <<>>
                      /\ Head(queue).kind = "worker" /\ Head(queue).id = w
                      /\ vars' # vars
          IN
          /\ (workers[w].pc = "shift" /\ mine) =>
                IF now' < end
                THEN /\ workers'[w].pc \in {"shift", workers[w].type}
                     /\ \E e \in 1..Len(queue') :
                           /\ queue'[e].kind = "worker" /\ queue'[e].id = w
                           /\ queue'[e].time \in {now', now' + IdleTime}
                ELSE /\ workers'[w].pc = "done"
                     /\ workers'[w].ended = now'
          \* the first step of a unit of work is taken in the same instant
          /\ (workers[w].pc = workers[w].type /\ workers'[w].pc # workers[w].pc) =>
                now' < end
          \* no interruption: the worker's state moves only with its own events
          /\ workers'[w].pc = "done" => workers[w].pc \in {"shift", "done"}
          /\ (workers[w].pc \notin {"shift", "done"} /\ ~mine /\ running # w) =>
                workers'[w].pc = workers[w].pc
      ]_vars

\* a picker ended after its shift end because the order it had popped
\* before was picked and handed over first
C15_Witness ==
    \E w \in WorkerIds :
        /\ workers[w].type = "picker"
        /\ workers[w].pc = "done"
        /\ workers[w].order # 0
        /\ workers[w].ended > workers[w].started + shift_length
        /\ orders[workers[w].order].status \in {"WAITING_TO_PACK", "SHIPPED"}

\* C16: the shift label changes exactly at the times 0, shift_length,
\* 2 * shift_length, ... and at no other time; the labels follow the
\* sequence morning, afternoon, evening, morning, ... with morning at time 0,
\* so between two changes the label is the one of the time of day.
C16_ShiftLabel ==
    [][/\ mgr'.current_shift # mgr.current_shift =>
            /\ now' = mgr.shift_idx * shift_length
            /\ mgr'.shift_idx = mgr.shift_idx + 1
            /\ mgr'.current_shift = ShiftLabels[(mgr.shift_idx % 3) + 1]
       /\ mgr'.shift_idx # mgr.shift_idx =>
            mgr'.current_shift # mgr.current_shift
       \* after the first change the label in force is the one of the time
       \* of day, until the instant of the next change
       /\ mgr'.shift_idx >= 1 =>
            /\ now' >= (mgr'.shift_idx - 1) * shift_length
            /\ now' <= mgr'.shift_idx * shift_length
            /\ now' < mgr'.shift_idx * shift_length =>
                  mgr'.current_shift =
                      ShiftLabels[((now' \div shift_length) % 3) + 1]
       /\ mgr'.shift_idx = 0 => now' = 0 /\ mgr'.current_shift = "evening"
      ]_vars

\* the label has gone round once: the fourth change, at three shift
\* lengths, made it morning again
C16_Witness ==
    /\ mgr.shift_idx = 4
    /\ mgr.current_shift = "morning"
    /\ now = 3 * shift_length

\* C17: at every shift change the shift manager spawns exactly as many
\* pickers, then stowers, then packers as the roster row of that shift
\* lists (the row of the elapsed number of shifts, the rows being in
\* calendar order), and no worker is spawned in any other step.
C17_SpawnByRoster ==
    [][LET row == roster[((now' \div shift_length) % Len(roster)) + 1]
           n0 == Len(workers)
           new == [i \in 1..(Len(workers') - n0) |-> workers'[n0 + i].type]
       IN
       /\ Len(workers') >= n0
       /\ mgr' = mgr => Len(workers') = n0
       /\ mgr' # mgr =>
            /\ new = [i \in 1..row.num_pickers |-> "picker"]
                     \o [i \in 1..row.num_stowers |-> "stower"]
                     \o [i \in 1..row.num_packers |-> "packer"]
            /\ \A i \in 1..Len(new) :
                  /\ workers'[n0 + i].started = now'
                  /\ workers'[n0 + i].pc = "shift"
            /\ \A w \in 1..n0 : workers'[w] = workers[w]
            /\ get_weekday(now') = Weekdays[((mgr.shift_idx \div 3) % 7) + 1]
      ]_vars

\* the change to the afternoon of the second day has spawned workers of a
\* row with two roles, and the day before had a shift without any worker
C17_Witness ==
    /\ mgr.shift_idx = 5
    /\ mgr.current_shift = "afternoon"
    /\ get_weekday(now) = "Friday"
    /\ \E w, v \in WorkerIds :
          /\ workers[w].started = now /\ workers[w].type = "picker"
          /\ workers[v].started = now /\ workers[v].type = "stower"
    /\ \A w \in WorkerIds : workers[w].started # shift_length

\* C18: under the Random policy every pickup started after check_inventory
\* returned true reaches an order with every requested quantity allocated.
\* A pickup that is executing its loop does not yield before it finds a unit
\* it still wants, and no other process runs until it yields, so the bin
\* levels it sees cannot change: it can reach a filled order only if some bin
\* holds a unit of a product its order is still short of.
C18_PickupCanFinish ==
    \A w \in WorkerIds :
        (storage_type = "random" /\ running = w /\ workers[w].pc = "r_loop"
            /\ ~check_if_filled(orders[workers[w].order])) =>
           \E b \in Bins :
               GetList(RandomAmounts(orders[workers[w].order], b), 1) # <<>>

\* C19: the total weight held in the inbound holding area never exceeds the
\* area's weight capacity.
C19_ParkingWithinCapacity == Weight2(parking) <= inbound_parking_capacity2

\* the events that were pending before a step and are still to come after it
Pending == IF running = 0 /\ queue # <<>> THEN Tail(queue) ELSE queue
\* position i of the queue after the step holds an event scheduled by the step
IsNew(i) == \A j \in 1..Len(Pending) : Pending[j] # queue'[i]

\* the clock never goes back, the event processed is one of the earliest,
\* and one process runs per step: only the process the event resumes (or
\* the one that has not yielded yet) changes its position
OneAtATime ==
    LET head == IF running = 0 /\ queue # <<>> THEN Head(queue)
                ELSE Ev(now, NORMAL, "worker", running, 0, 0)
        actor(kind, id) == head.kind = kind /\ head.id = id
    IN
    /\ now' >= now
    /\ \A i \in 1..Len(queue') : queue'[i].time >= now'
    /\ \A i, j \in 1..Len(queue') : i < j => queue'[i].time <= queue'[j].time
    /\ (running = 0 /\ queue # <<>>) => now' = Head(queue).time
    /\ running # 0 => now' = now
    /\ \A w \in DOMAIN workers : ~actor("worker", w) => workers'[w] = workers[w]
    /\ ~actor("recv", 0) => recv' = recv
    /\ ~actor("mgr", 0) => mgr' = mgr /\ Len(workers') = Len(workers)
    /\ ~actor("dock", 0) => dock' = dock
    /\ \A o \in OrderIds :
          mon'[o] # mon[o] =>
              \/ actor("mon", o)
              \/ actor("recv", 0) /\ mon[o] = "none" /\ mon'[o] = "init"

\* C20 as stated: processes are resumed in non-decreasing order of virtual
\* time, those due at the same time in the order they were scheduled (an
\* event scheduled by a step comes after every pending event of the same
\* time), and one process runs at a time.
C20_SchedulingOrderAsStated ==
    [][(vars' # vars) =>
          /\ OneAtATime
          /\ \A i, j \in 1..Len(queue') :
                (IsNew(i) /\ ~IsNew(j) /\ queue'[j].time = queue'[i].time)
                    => j < i
      ]_vars

\* C20: processes are resumed in non-decreasing order of virtual time and
\* one process runs at a time; among the events due at the same time the
\* first run of a newly started process (URGENT) comes before every
\* resumption (NORMAL), and events of equal time and priority are processed
\* in the order they were scheduled.
C20_SchedulingOrder ==
    [][(vars' # vars) =>
          /\ OneAtATime
          /\ \A i, j \in 1..Len(queue') :
                (IsNew(i) /\ ~IsNew(j)) =>
                    (j < i <=> \/ queue'[j].time < queue'[i].time
                               \/ /\ queue'[j].time = queue'[i].time
                                  /\ queue'[j].prio <= queue'[i].prio)
      ]_vars

\* at time 0 a picker spawned by the shift manager has already run and
\* found the store empty, while the arrival of the first order, scheduled
\* before the picker was spawned and due at time 0 too, is still pending
C20_Witness ==
    \E w \in WorkerIds :
        /\ now = 0
        /\ workers[w].type = "picker" /\ workers[w].pc = "return"
        /\ recv.pc = "waiting"
        /\ orders[recv.order].arrival_time = 0
        /\ orders[recv.order].status = "UNPROCESSED"
        /\ \E i \in 1..Len(queue) :
              /\ queue[i].kind = "recv" /\ queue[i].time = 0
              /\ queue[i].prio = NORMAL

\* the event that resumes worker w is in the queue for time t
DueAt(q, w, t) ==
    \E i \in 1..Len(q) : q[i].kind = "worker" /\ q[i].id = w /\ q[i].time = t

\* C22: under the Designated policy a pickup visits the bins of the products
\* with non-zero requested quantity only, in the order 1,2,3,4; an acquire
\* that does not block takes no time, and after the last acquire the picker
\* waits exactly 120 + 10 x (total requested units) + 60 x (index of the last
\* bin visited - index of the first) + 120 seconds, so a pickup in which no
\* acquire blocks takes exactly that long (290 for five units of one
\* product).
C22_DesignatedPickupTime ==
    [][\A w \in DOMAIN workers :
          LET o == workers[w].order
              qty == orders[o].qty
              wanted == {p \in Products : qty[p] > 0}
              first == CHOOSE p \in wanted : \A x \in wanted : p <= x
              last == CHOOSE p \in wanted : \A x \in wanted : p >= x
              pc == workers[w].pc
              pc2 == workers'[w].pc
              path2 == workers'[w].bin_path
          IN
          (storage_type = "designated" /\ workers[w].type = "picker") =>
             \* an acquire: the next wanted product, granted at once or blocked
             /\ (pc \in {"pickup", "d_got"} /\ pc2 = "d_got"
                    /\ workers'[w] # workers[w]) =>
                   /\ workers'[w].prod \in wanted
                   /\ pc = "pickup" => workers'[w].prod = first
                   /\ pc = "d_got" =>
                         /\ workers'[w].prod > workers[w].prod
                         /\ \A x \in wanted : ~(workers[w].prod < x
                                                  /\ x < workers'[w].prod)
                   /\ \/ BlockedAt(binq', w, workers'[w].prod, workers'[w].prod)
                      \/ DueAt(queue', w, now')
             \* after the last acquire: the walk and the picking time
             /\ (pc = "d_got" /\ pc2 = "pickup_wait") =>
                   /\ workers[w].prod = last
                   /\ Len(path2) = Cardinality(wanted)
                   /\ \A i \in 1..Len(path2) : path2[i] \in wanted
                   /\ \A i, j \in 1..Len(path2) : i < j => path2[i] < path2[j]
                   /\ DueAt(queue', w, now' + 120 + 10 * Sum4(qty)
                                         + 60 * (last - first) + 120)
             /\ (pc = "pickup_wait" /\ pc2 # "pickup_wait") => pc2 = "picked"
      ]_vars

\* the pickup of five tshirts, popped at the picker's second poll (time 1),
\* is over at time 1 + 290 with the five units picked
C22_Witness ==
    \E w \in WorkerIds :
        LET o == workers[w].order IN
        /\ storage_type = "designated"
        /\ workers[w].type = "picker" /\ workers[w].pc = "picked"
        /\ o # 0
        /\ orders[o].qty = <<5, 0, 0, 0>>
        /\ picked[o] = <<5, 0, 0, 0>>
        /\ now = IdleTime + 290

\* C23: under the Random policy a stow of `amount' units of one product
\* walks 120 seconds to storage, visits the bins in the order 1,2,3,4 (no
\* move time before bin 1, 60 seconds between bins), puts floor(amount/4)
\* units into each of bins 1, 2, 3 and floor(amount/4) + (amount mod 4) into
\* bin 4, one unit every 10 seconds and nothing of any other product, and
\* walks 120 seconds back: 120 + 10 x amount + 3 x 60 + 120 seconds.
C23_RandomStow ==
    [][\A w \in DOMAIN workers :
          LET pc == workers[w].pc
              pc2 == workers'[w].pc
              amount == workers[w].amount
              b == workers[w].bin_loc
              b2 == workers'[w].bin_loc
              share(x) == (amount \div 4) + (IF x = 4 THEN amount % 4 ELSE 0)
          IN
          (storage_type = "random" /\ workers[w].type = "stower"
              /\ workers'[w] # workers[w]) =>
             /\ (pc = "stow" => pc2 = "stow_arrive" /\ DueAt(queue', w, now' + 120))
             /\ (pc = "stow_arrive" =>
                    /\ pc2 = "stow_moved" /\ b2 = 1
                    /\ workers'[w].bin_amount = share(1)
                    /\ DueAt(queue', w, now'))
             /\ (pc \in {"stow_arrive", "stow_moved", "stow_unit", "stow_back"} =>
                    /\ workers'[w].amount = amount
                    /\ workers'[w].prod = workers[w].prod)
             \* a unit is put only at stow_unit: one unit of the product
             /\ (pc # "stow_unit" /\ pc \in {"stow", "stow_arrive", "stow_moved",
                                              "stow_back"}) => bins' = bins
             /\ (pc = "stow_unit" =>
                    /\ bins' = [bins EXCEPT ![b][workers[w].prod] = @ + 1]
                    /\ workers[w].bin_amount >= 1)
             /\ (pc \in {"stow_moved", "stow_unit"} =>
                    LET left == IF pc = "stow_unit" THEN workers[w].bin_amount - 1
                                ELSE workers[w].bin_amount
                    IN
                    IF left > 0
                    THEN /\ pc2 = "stow_unit" /\ b2 = b
                         /\ workers'[w].bin_amount = left
                         /\ DueAt(queue', w, now' + 10)
                    ELSE IF b < 4
                    THEN /\ pc2 = "stow_moved" /\ b2 = b + 1
                         /\ workers'[w].bin_amount = share(b + 1)
                         /\ DueAt(queue', w, now' + 60)
                    ELSE /\ pc2 = "stow_back"
                         /\ DueAt(queue', w, now' + 120))
             /\ (pc = "stow_back" => pc2 = "return" /\ DueAt(queue', w, now'))
      ]_vars

\* ten tshirts delivered at time 5 into empty random storage were taken by
\* the stower at once; after 120 seconds at the dock and a stow of
\* 120 + 100 + 180 + 120 seconds the stow is over and the bins hold 2,2,2,4
C23_Witness ==
    \E w \in WorkerIds :
        /\ storage_type = "random"
        /\ workers[w].type = "stower" /\ workers[w].pc = "return"
        /\ workers[w].amount = 10 /\ workers[w].prod = 1
        /\ bins = <<<<2, 0, 0, 0>>, <<2, 0, 0, 0>>, <<2, 0, 0, 0>>, <<4, 0, 0, 0>>>>
        /\ now = initial_wait + 120 + (120 + 10 * 10 + 3 * 60 + 120)

\* C24: a packer that pops from its station queue an order that is not
\* WAITING_TO_PACK does not ship it, books nothing for it, and idles one
\* second before its next unit of work.
C24_SkipIdlesOneSecond ==
    [][\A w \in DOMAIN workers :
          (/\ workers[w].pc = "packer_got"
           /\ workers'[w] # workers[w]
           /\ orders[workers[w].order].status # "WAITING_TO_PACK") =>
             /\ orders' = orders
             /\ kpi' = kpi
             /\ tracker' = tracker
             /\ DueAt(queue', w, now' + 1)
      ]_vars

\* the part of C24 the program keeps: nothing is shipped or booked
C24_SkipBooksNothing ==
    [][\A w \in DOMAIN workers :
          (/\ workers[w].pc = "packer_got"
           /\ workers'[w] # workers[w]
           /\ orders[workers[w].order].status # "WAITING_TO_PACK") =>
             /\ orders' = orders
             /\ kpi' = kpi
             /\ tracker' = tracker
      ]_vars

\* a packer has popped an order that was cancelled in the station queue
C24_Popped ==
    \E w \in WorkerIds :
        /\ workers[w].pc = "packer_got"
        /\ orders[workers[w].order].status = "CANCELLED"

\* C25: every hop of a Random pickup moves to a bin whose index differs by
\* exactly one from the bin just visited: 1 -> 2, 4 -> 3, and from 2 or 3
\* to the left or the right neighbour, never staying.
C25_HopToNeighbour ==
    [][\A w \in DOMAIN workers :
          (/\ storage_type = "random"
           /\ workers[w].type = "picker"
           /\ workers[w].pc \in {"r_loop", "r_got"}
           /\ workers'[w].bin_moves = workers[w].bin_moves + 1) =>
             \/ workers'[w].target_bin = workers[w].target_bin + 1
             \/ workers'[w].target_bin = workers[w].target_bin - 1
      ]_vars

\* what the program keeps: a hop never skips a bin and never leaves 1..4,
\* and from the end bins 1 and 4 it goes to 2 and 3
C25_HopAtMostOne ==
    [][\A w \in DOMAIN workers :
          (/\ storage_type = "random"
           /\ workers[w].type = "picker"
           /\ workers[w].pc \in {"r_loop", "r_got"}
           /\ workers'[w].bin_moves = workers[w].bin_moves + 1) =>
             /\ workers'[w].target_bin \in Bins
             /\ workers'[w].target_bin - workers[w].target_bin \in {-1, 0, 1}
             /\ workers[w].target_bin = 1 => workers'[w].target_bin = 2
             /\ workers[w].target_bin = 4 => workers'[w].target_bin = 3
      ]_vars

\* C26: a packer that pops an order in WAITING_TO_PACK packs for exactly
\* 30 + 10 x (sum of the order's allocated quantities) seconds; at the end
\* of that time the order becomes SHIPPED, the shipped counter increases by
\* one, gross profit increases by the sum of requested quantity x unit
\* profit, and the tracker decreases by the allocated quantities per product.
C26_PackAndShip ==
    [][\A w \in DOMAIN workers :
          LET o == orders[workers[w].order] IN
          /\ (/\ workers[w].pc = "packer_got"
              /\ workers'[w] # workers[w]
              /\ o.status = "WAITING_TO_PACK") =>
                /\ workers'[w].pc = "packing"
                /\ DueAt(queue', w,
                      now' + 30 + 10 * (o.allocated[1] + o.allocated[2]
                                        + o.allocated[3] + o.allocated[4]))
                /\ orders' = orders /\ kpi' = kpi /\ tracker' = tracker
          /\ (/\ workers[w].pc = "packing"
              /\ workers'[w] # workers[w]) =>
                /\ orders'[workers[w].order].status = "SHIPPED"
                /\ kpi'.orders_shipped = kpi.orders_shipped + 1
                /\ kpi'.gross_profit = kpi.gross_profit
                      + o.qty[1] * unit_gross_profit[1]
                      + o.qty[2] * unit_gross_profit[2]
                      + o.qty[3] * unit_gross_profit[3]
                      + o.qty[4] * unit_gross_profit[4]
                /\ \A p \in Products : tracker'[p] = tracker[p] - o.allocated[p]
      ]_vars

\* an order with allocated units has just been shipped by a packer
C26_Witness ==
    \E w \in WorkerIds :
        /\ workers[w].type = "packer" /\ workers[w].pc = "shift"
        /\ workers[w].order \in OrderIds
        /\ orders[workers[w].order].status = "SHIPPED"
        /\ Sum4(orders[workers[w].order].allocated) > 0
        /\ kpi.orders_shipped > 0

\* what the program keeps of C26: the bookings of an order that is still
\* WAITING_TO_PACK when its packing ends
C26_ShipWaiting ==
    [][\A w \in DOMAIN workers :
          LET o == orders[workers[w].order] IN
          (/\ workers[w].pc = "packing"
           /\ workers'[w] # workers[w]
           /\ o.status = "WAITING_TO_PACK") =>
                /\ orders'[workers[w].order].status = "SHIPPED"
                /\ kpi'.orders_shipped = kpi.orders_shipped + 1
                /\ kpi'.gross_profit = kpi.gross_profit + get_gross_profit(o)
                /\ \A p \in Products : tracker'[p] = tracker[p] - o.allocated[p]
      ]_vars

\* C27: a picker that hands an order over for packing marks it
\* WAITING_TO_PACK exactly 30 seconds after the pickup completed and appends
\* it to a packing-station queue whose length at that instant is minimal
\* among the queues of all installed stations.
C27_HandOver ==
    [][\A w \in DOMAIN workers :
          LET o == workers[w].order IN
          (workers[w].type = "picker" /\ workers'[w] # workers[w]) =>
             \* the pickup sub-process is over: the picker goes on at once
             /\ (workers[w].pc = "pickup_wait" =>
                    workers'[w].pc = "picked" /\ DueAt(queue', w, now'))
             /\ (workers[w].pc = "picked" =>
                    /\ workers'[w].pc = "handoff"
                    /\ DueAt(queue', w, now' + 30)
                    /\ orders' = orders /\ stations' = stations)
             /\ (workers[w].pc = "handoff" /\ orders'[o].status = "WAITING_TO_PACK" =>
                    /\ orders[o].status # "WAITING_TO_PACK"
                    /\ \E i \in DOMAIN stations :
                         /\ \A j \in DOMAIN stations :
                               Len(stations[i].items) <= Len(stations[j].items)
                         /\ stations' = [stations EXCEPT ![i].items = Append(@, o)])
             /\ (workers[w].pc = "handoff" /\ orders'[o].status # "WAITING_TO_PACK" =>
                    /\ orders[o].status = "CANCELLED"
                    /\ orders' = orders /\ stations' = stations)
      ]_vars

\* two stations, one order waiting at each: the second hand-over went to
\* the queue that was the shorter one
C27_Witness ==
    /\ Len(stations) = 2
    /\ Len(stations[1].items) = 1 /\ Len(stations[2].items) = 1
    /\ orders[stations[1].items[1]].status = "WAITING_TO_PACK"
    /\ orders[stations[2].items[1]].status = "WAITING_TO_PACK"
    /\ \E w \in WorkerIds : workers[w].type = "picker" /\ workers[w].pc = "shift"

\* C28: when the watchdog cancels an order that has allocated quantities,
\* the tracker level of each product decreases by exactly the order's
\* allocated quantity of that product at that instant, and no bin level and
\* no holding-area level changes.
C28_CancelReleasesTracker ==
    [][\A o \in DOMAIN orders :
          (/\ mon[o] = "waiting" /\ mon'[o] = "done"
           /\ orders'[o].status = "CANCELLED"
           /\ orders[o].status # "CANCELLED"
           /\ Sum4(orders[o].allocated) > 0) =>
             /\ \A p \in Products :
                   tracker'[p] = tracker[p] - orders[o].allocated[p]
             /\ bins' = bins
             /\ parking' = parking
      ]_vars

\* the watchdog has cancelled an order with allocated units
C28_Cancelled ==
    \E o \in OrderIds :
        /\ mon[o] = "done" /\ orders[o].status = "CANCELLED"
        /\ orders[o].booked = <<"CANCELLED">>
        /\ Sum4(orders[o].allocated) > 0

\* C29: an order's allocated quantity of each product never decreases, and
\* it never changes after the order has entered a terminal status (SHIPPED,
\* CANCELLED or DISCARDED), also when the order is cancelled while a picker
\* is part-way through its pickup.
C29_AllocatedFrozen ==
    [][\A o \in DOMAIN orders :
          /\ \A p \in Products : orders'[o].allocated[p] >= orders[o].allocated[p]
          /\ (orders[o].status \in {"SHIPPED", "CANCELLED", "DISCARDED"} =>
                 orders'[o].allocated = orders[o].allocated)
      ]_vars

\* what the program keeps of C29: allocated quantities never decrease
C29_AllocatedMonotone ==
    [][\A o \in DOMAIN orders :
          \A p \in Products : orders'[o].allocated[p] >= orders[o].allocated[p]
      ]_vars

\* C30: when a worker ends, the base-wage total increases by exactly one
\* shift length (8 hours) of wage, once per worker, and the overtime total
\* increases by the wage of exactly (end time - (spawn time + shift length))
\* seconds, which is >= 0, and is 0 for a worker that was idle-polling at
\* its shift end.  Both totals are counted in seconds of wage.
C30_WagesAtEnd ==
    [][/\ \A w \in DOMAIN workers :
            LET due == workers[w].started + shift_length IN
            /\ (workers[w].pc # "done" /\ workers'[w].pc = "done") =>
                  /\ workers[w].pc = "shift"
                  /\ now' = now
                  /\ now' >= due
                  /\ kpi'.labor_expense = kpi.labor_expense + shift_length
                  /\ kpi'.labor_expense_overtime =
                        kpi.labor_expense_overtime + (now' - due)
            \* an ended worker is never booked again
            /\ workers[w].pc = "done" => workers'[w] = workers[w]
            \* an idle second is begun before the shift end and so is over
            \* at the shift end at the latest: such a worker ends on time
            /\ (/\ workers[w].pc \in {"picker", "stower", "packer", "shift"}
                /\ workers'[w].pc = "return"
                /\ DueAt(queue', w, now' + 1)) =>
                  now' + 1 <= due
            /\ (/\ workers[w].pc = "return" /\ workers'[w].pc = "shift"
                /\ workers[w].type = "picker" /\ now' >= due) =>
                  now' = due
       \* the totals change only when a worker ends
       /\ (kpi'.labor_expense # kpi.labor_expense
             \/ kpi'.labor_expense_overtime # kpi.labor_expense_overtime) =>
            \E w \in DOMAIN workers :
                workers[w].pc # "done" /\ workers'[w].pc = "done"
      ]_vars

\* one picker ended on time after idle-polling, another worker ended late
\* after finishing its unit of work; the base wage was booked once for each
\* ended worker and the overtime total is that of the late worker
C30_Witness ==
    \E w, v \in WorkerIds :
        /\ w # v
        /\ workers[w].pc = "done" /\ workers[v].pc = "done"
        /\ workers[w].ended = workers[w].started + shift_length
        /\ workers[v].ended > workers[v].started + shift_length
        /\ kpi.labor_expense = shift_length
              * Cardinality({u \in WorkerIds : workers[u].pc = "done"})
        /\ kpi.labor_expense_overtime >=
              workers[v].ended - (workers[v].started + shift_length)

\* C31: under the Random policy a pickup in which no acquire blocks takes
\* exactly 120 + 10 x (total requested units) + 60 x (number of hops) + 120
\* seconds, where the number of hops is the number of bin-to-bin moves made
\* between the first bin visited and the bin at which the order became
\* fully allocated (never negative, the move after the last acquisition
\* not counted): the counter starts at -1 and every pass of the loop that
\* adds one to it is a move to another bin.
C31_RandomPickupTime ==
    [][\A w \in DOMAIN workers :
          LET o == orders[workers[w].order]
              moves == workers[w].bin_moves
          IN
          (storage_type = "random" /\ workers[w].type = "picker"
              /\ workers'[w] # workers[w]) =>
             /\ (workers[w].pc = "pickup" =>
                    workers'[w].pc = "r_loop" /\ workers'[w].bin_moves = -1)
             /\ (workers[w].pc \in {"r_loop", "r_got"} =>
                    \/ /\ workers'[w].bin_moves = moves
                       /\ workers'[w].target_bin = workers[w].target_bin
                    \/ /\ workers'[w].bin_moves = moves + 1
                       /\ workers'[w].target_bin # workers[w].target_bin)
             /\ (workers[w].pc = "r_loop" /\ workers'[w].pc = "pickup_wait" =>
                    /\ moves >= 0
                    /\ DueAt(queue', w,
                          now' + 120
                               + 10 * (o.qty[1] + o.qty[2] + o.qty[3] + o.qty[4])
                               + 60 * moves + 120))
      ]_vars

\* what the program keeps of C31: the pickup is charged 60 seconds for every
\* pass of the loop but the first, whether or not the pass changed the bin
C31_ChargedPasses ==
    [][\A w \in DOMAIN workers :
          LET o == orders[workers[w].order]
              moves == workers[w].bin_moves
          IN
          (storage_type = "random" /\ workers[w].type = "picker"
              /\ workers'[w] # workers[w]) =>
             /\ (workers[w].pc = "pickup" =>
                    workers'[w].pc = "r_loop" /\ workers'[w].bin_moves = -1)
             /\ (workers[w].pc \in {"r_loop", "r_got"} =>
                    \/ /\ workers'[w].bin_moves = moves
                       /\ workers'[w].target_bin = workers[w].target_bin
                    \/ workers'[w].bin_moves = moves + 1)
             /\ (workers[w].pc = "r_loop" /\ workers'[w].pc = "pickup_wait" =>
                    /\ moves >= 0
                    /\ DueAt(queue', w,
                          now' + 120 + 10 * Sum4(o.qty) + 60 * moves + 120))
      ]_vars

\* C32: under the Designated policy stow(product, amount) walks 120 seconds,
\* raises only the level of that product in the bin designated to it, one
\* unit every 10 seconds and `amount' units in all, leaves every other pool
\* unchanged, and walks 120 seconds back: 120 + 10 x amount + 120 seconds;
\* and each Designated bin only ever holds its own product type.
C32_DesignatedStow ==
    [][/\ storage_type = "designated" =>
            \A b \in Bins, p \in Products : b # p => bins[b][p] = 0 /\ bins'[b][p] = 0
       /\ \A w \in DOMAIN workers :
          LET pc == workers[w].pc
              pc2 == workers'[w].pc
              prod == workers[w].prod
              left == IF pc = "stow_unit" THEN workers[w].bin_amount - 1
                      ELSE workers[w].amount
          IN
          (storage_type = "designated" /\ workers[w].type = "stower"
              /\ workers'[w] # workers[w]) =>
             /\ (pc = "stow" =>
                    pc2 = "stow_arrive" /\ DueAt(queue', w, now' + 120))
             /\ (pc \in {"stow", "stow_arrive", "stow_back"} =>
                    bins' = bins /\ pool' = pool)
             /\ (pc = "stow_unit" =>
                    /\ bins' = [bins EXCEPT ![prod][prod] = @ + 1]
                    /\ \A id \in PoolIds :
                         id # <<"bin", prod, prod>> => pool'[id] = pool[id])
             /\ (pc \in {"stow", "stow_arrive", "stow_unit", "stow_back"} =>
                    /\ parking' = parking /\ tracker' = tracker
                    /\ workers'[w].amount = workers[w].amount
                    /\ workers'[w].prod = prod)
             /\ (pc \in {"stow_arrive", "stow_unit"} =>
                    IF left > 0
                    THEN /\ pc2 = "stow_unit"
                         /\ workers'[w].bin_amount = left
                         /\ DueAt(queue', w, now' + 10)
                    ELSE /\ pc2 = "stow_back"
                         /\ DueAt(queue', w, now' + 120))
             /\ (pc = "stow_back" => pc2 = "return" /\ DueAt(queue', w, now'))
      ]_vars

\* two hoodies delivered at time 5 were taken by the stower at once; after
\* 120 seconds at the dock and a stow of 120 + 2 x 10 + 120 seconds the
\* stow is over and bin 2 has been given exactly two hoodies on top of its
\* initial stock, no other bin anything
C32_Witness ==
    \E w \in WorkerIds :
        /\ storage_type = "designated"
        /\ workers[w].type = "stower" /\ workers[w].pc = "return"
        /\ workers[w].amount = 2 /\ workers[w].prod = 2
        /\ \A b \in Bins, p \in Products :
              pool[<<"bin", b, p>>].put =
                  (IF b = p THEN ContendedStock[p] ELSE 0)
                  + (IF b = 2 /\ p = 2 THEN 2 ELSE 0)
        /\ now = initial_wait + 120 + (120 + 10 * 2 + 120)

\* C33: each stower trip removes from the inbound holding area, in one
\* step, exactly min(floor(12 / unit weight), current level) units of a
\* product whose level x unit weight is maximal among the four products at
\* that instant, and then stows exactly that many units; when every
\* product's holding level is zero the stower removes nothing and idles
\* one second.
C33_StowerTrip ==
    [][\A w \in DOMAIN workers :
          (workers[w].type = "stower" /\ workers'[w] # workers[w]) =>
             /\ (workers[w].pc = "stower" =>
                   IF \A p \in Products : parking[p] = 0
                   THEN /\ parking' = parking
                        /\ workers'[w].pc = "return"
                        /\ DueAt(queue', w, now' + 1)
                   ELSE \E p \in Products :
                        LET n == IF parking[p] < StowTripWeight2 \div unit_weight2[p]
                                 THEN parking[p]
                                 ELSE StowTripWeight2 \div unit_weight2[p]
                        IN
                        /\ \A q \in Products :
                              parking[q] * unit_weight2[q] <= parking[p] * unit_weight2[p]
                        /\ n >= 1
                        /\ parking' = [parking EXCEPT ![p] = @ - n]
                        /\ workers'[w].prod = p
                        /\ workers'[w].amount = n
                        /\ workers'[w].pc = "stower_got"
                        /\ DueAt(queue', w, now'))
             \* what was taken is what the stow is started with
             /\ (workers[w].pc \in {"stower_got", "stower_loaded", "stow"} =>
                    /\ workers'[w].amount = workers[w].amount
                    /\ workers'[w].prod = workers[w].prod
                    /\ parking' = parking)
             /\ (workers[w].pc = "stower_loaded" => workers'[w].pc = "stow")
      ]_vars

\* of the nine pairs of sneakers in the holding area, next to one tshirt,
\* the stower has taken eight (floor(12 / 1.5)) and begun to stow them
C33_Witness ==
    \E w \in WorkerIds :
        /\ workers[w].type = "stower" /\ workers[w].pc = "stow_arrive"
        /\ workers[w].prod = 4 /\ workers[w].amount = 8
        /\ parking = <<1, 0, 0, 1>>

\* C34: on every inbound delivery the regular delivery fee is booked, and
\* the return-freight cost is booked on that delivery if and only if the
\* scheduled shipment's total weight exceeds the holding area's remaining
\* capacity at that instant; in that case every product's accepted quantity
\* is at most its scheduled quantity, and otherwise the scheduled
\* quantities are accepted in full.  Fees are counted in deliveries.
C34_DeliveryFees ==
    [][LET ship == schedule[(dock.n % Len(schedule)) + 1]
           w2(v) == v[1] * unit_weight2[1] + v[2] * unit_weight2[2]
                    + v[3] * unit_weight2[3] + v[4] * unit_weight2[4]
           over == w2(ship) > inbound_parking_capacity2 - w2(parking)
       IN
       /\ (dock.pc = "deliver" /\ dock' # dock) =>
            /\ dock'.n = dock.n + 1
            /\ kpi'.delivery_expense = kpi.delivery_expense + 1
            /\ kpi'.delivery_expense_returns =
                  kpi.delivery_expense_returns + (IF over THEN 1 ELSE 0)
            /\ \A p \in Products : dock'.inbound[p] <= ship[p]
            /\ ~over => dock'.inbound = ship
       \* the fees change at deliveries only, and what is put into the
       \* holding area is the accepted quantity of the product
       /\ (kpi'.delivery_expense # kpi.delivery_expense
             \/ kpi'.delivery_expense_returns # kpi.delivery_expense_returns) =>
            dock.pc = "deliver" /\ dock' # dock
       /\ \A p \in Products :
            parking'[p] > parking[p] =>
               /\ parking'[p] = parking[p] + dock'.inbound[p]
               /\ dock'.prod = p
       /\ (dock.pc # "deliver" /\ dock' # dock) => dock'.inbound = dock.inbound
      ]_vars

\* a shipment of 40 tshirts and one pair of sneakers arrived at a holding
\* area of 20 pounds: both fees were booked and 10 tshirts were accepted
C34_Witness ==
    /\ schedule = <<<<40, 0, 0, 1>>>>
    /\ kpi.delivery_expense = 1 /\ kpi.delivery_expense_returns = 1
    /\ dock.inbound = <<10, 0, 0, 1>>
    /\ dock.pc = "deliver" /\ dock.n = 1
    /\ parking = <<10, 0, 0, 1>>

\* a shipment that fits was accepted in full at the regular fee only
C34_WitnessFits ==
    /\ schedule = StowSchedule
    /\ kpi.delivery_expense = 1 /\ kpi.delivery_expense_returns = 0
    /\ dock.inbound = <<10, 0, 0, 0>>
    /\ dock.pc = "deliver" /\ dock.n = 1

C35_WitnessFalse ==
    \E w \in WorkerIds :
        LET o == orders[workers[w].order] IN
        /\ storage_type = "random"
        /\ workers[w].pc = "shift" /\ workers[w].order \in OrderIds
        /\ o.qty = <<3, 0, 0, 0>> /\ o.status = "DISCARDED"
        /\ o.booked = <<"DISCARDED">>
        /\ bins[1][1] = 0 /\ bins[2][1] = 1 /\ bins[3][1] = 1 /\ bins[4][1] = 1

\* C36: for every order at most one financial outcome is booked over the
\* whole run (gross profit at shipping, lost-sales penalty at discard,
\* lost-sales penalty at cancellation): whenever gross profit or the
\* lost-sales penalty is booked, it is booked for exactly one order, and
\* nothing was booked for that order before.
C36_OneFinancialBooking ==
    [][(kpi'.gross_profit # kpi.gross_profit
          \/ kpi'.lost_sales_penalty # kpi.lost_sales_penalty
          \/ \E o \in DOMAIN orders : orders'[o].booked # orders[o].booked) =>
         \E o \in DOMAIN orders :
            /\ orders[o].booked = <<>>
            /\ Len(orders'[o].booked) = 1
            /\ \A x \in DOMAIN orders : x # o => orders'[x].booked = orders[x].booked
            /\ IF orders'[o].booked[1] = "SHIPPED"
               THEN /\ kpi'.gross_profit = kpi.gross_profit + get_gross_profit(orders[o])
                    /\ kpi'.lost_sales_penalty = kpi.lost_sales_penalty
               ELSE /\ kpi'.gross_profit = kpi.gross_profit
                    /\ kpi'.lost_sales_penalty =
                          kpi.lost_sales_penalty + get_lost_sales_penalty(orders[o])
      ]_vars

\* units of product p acquired from the bins for orders that are neither
\* SHIPPED nor CANCELLED
HeldForOrders(p) ==
    SumOver([o \in OrderIds |->
                IF orders[o].status \in {"SHIPPED", "CANCELLED"} THEN 0
                ELSE picked[o][p]], OrderIds)

\* C37: for every product, in every state between events, the level of the
\* holding-cost tracker equals the units physically in the facility and not
\* yet shipped or scrapped: the sum of the storage-bin levels, the
\* holding-area level, the units carried by stowers and the units acquired
\* from bins for orders that are neither SHIPPED nor CANCELLED.
C37_TrackerIsPhysicalStock ==
    \A p \in Products :
        tracker[p] = InBins(p) + parking[p] + WithStowers(p) + HeldForOrders(p)

\* the same outside the instant in which the dock has put a product into
\* the holding area and not yet into the tracker
C37_TrackerOutsideDelivery ==
    dock.pc # "parked" => C37_TrackerIsPhysicalStock

\* C38: whenever an order's status is FILLED, WAITING_TO_PACK or SHIPPED,
\* its allocated quantity equals its requested quantity for every product
\* type, so profit is only ever booked for fully picked orders.
C38_FilledMeansAllocated ==
    \A o \in OrderIds :
        orders[o].status \in {"FILLED", "WAITING_TO_PACK", "SHIPPED"} =>
            \A p \in Products : orders[o].allocated[p] = orders[o].qty[p]

\* an order of several units of two products has been shipped with every
\* requested unit allocated, and its profit booked
C38_Witness ==
    \E o \in OrderIds :
        /\ orders[o].status = "SHIPPED"
        /\ orders[o].qty[1] > 0 /\ orders[o].qty[2] > 0
        /\ orders[o].allocated = orders[o].qty
        /\ kpi.gross_profit >= get_gross_profit(orders[o])
        /\ kpi.orders_shipped >= 1

\* no unit of product p can reach a storage bin any more: no delivery of the
\* schedule brings any, the holding area has none and no stower carries any
NoSupply(p) ==
    /\ \A i \in 1..Len(schedule) : schedule[i][p] = 0
    /\ parking[p] = 0
    /\ WithStowers(p) = 0

\* C39: every spawned worker eventually ends: once its shift end has passed
\* and its unit of work in progress has completed, it books its wage and
\* stops; no picker stays blocked or keeps looping in a pickup for ever.
\* In a finite run: no worker waits, after the end of its shift, for an
\* acquire from a bin that nothing can ever fill again.
C39_NoWorkerStuckForever ==
    \A w \in WorkerIds :
        \A b \in Bins, p \in Products :
            ~(/\ BlockedAt(binq, w, b, p)
              /\ NoSupply(p)
              /\ workers[w].pc # "done"
              /\ now > workers[w].end_shift_time)

\* C40: when a packer that holds a station ends its shift, that station
\* becomes free at that instant; a packer that is polling for a station and
\* has not ended its shift acquires a free station at its next poll, which
\* comes within one second; and a station is never left held by a packer
\* that has gone.
C40_StationHandover ==
    [][/\ \A w \in DOMAIN workers :
            LET st == workers[w].stationed_at IN
            \* the holder ends: its station is free in the same step
            /\ (/\ workers[w].type = "packer" /\ st # 0
                /\ workers[w].pc # "done" /\ workers'[w].pc = "done") =>
                  /\ stations[st].users = {w}
                  /\ stations'[st].users = {}
                  /\ now' = now
            \* the poll of a packer without station
            /\ (/\ workers[w].type = "packer" /\ st = 0
                /\ workers[w].pc = "shift"
                /\ running = 0 /\ queue # <<>>
                /\ Head(queue).kind = "worker" /\ Head(queue).id = w
                /\ Head(queue).time < Until
                /\ Head(queue).time < workers[w].end_shift_time) =>
                  IF \E i \in DOMAIN stations : stations[i].users = {}
                  THEN /\ workers'[w].stationed_at \in DOMAIN stations
                       /\ stations[workers'[w].stationed_at].users = {}
                       /\ stations'[workers'[w].stationed_at].users = {w}
                  ELSE /\ workers'[w].stationed_at = 0
                       /\ stations' = stations
                       /\ DueAt(queue', w, now' + 1)
       \* a packer without station polls again within a second
       /\ \A w \in DOMAIN workers' :
            (/\ workers'[w].type = "packer" /\ workers'[w].stationed_at = 0
             /\ workers'[w].pc = "shift") =>
               \E e \in 1..Len(queue') :
                  /\ queue'[e].kind = "worker" /\ queue'[e].id = w
                  /\ queue'[e].time <= now' + 1
       \* a station is held by packers that have not gone only
       /\ \A i \in DOMAIN stations' : \A w \in stations'[i].users :
            /\ workers'[w].type = "packer" /\ workers'[w].pc # "done"
            /\ workers'[w].stationed_at = i
      ]_vars

\* a packer that was polling for a station holds the station of a packer
\* that ended no more than a second ago
C40_Witness ==
    \E w1, w2 \in WorkerIds :
        /\ workers[w1].type = "packer" /\ workers[w2].type = "packer"
        /\ workers[w1].pc = "done" /\ workers[w2].pc # "done"
        /\ workers[w1].stationed_at # 0
        /\ workers[w2].stationed_at = workers[w1].stationed_at
        /\ stations[workers[w1].stationed_at].users = {w2}
        /\ workers[w2].started < workers[w1].ended
        /\ now <= workers[w1].ended + 1
=============================================================================
